---- MODULE Spec2Model ----
(***************************************************************************)
(* Model of the DNS zone synthesis core of dn42-roa-generator:             *)
(*   - Prefix value type            (src/src/model/record.rs)              *)
(*   - FQDNName, DNSZone, PrefixTree (src/src/model/dns.rs)                *)
(*   - reverse-zone synthesizer      (src/src/parser/dns.rs)               *)
(* Strings are sequences of one-character strings, so that formatting,     *)
(* splitting on '.', and label validation are computed, not assumed.       *)
(* Option<T> is a sequence of length at most one: None = << >>,            *)
(* Some(x) = << x >>.                                                      *)
(***************************************************************************)
EXTENDS Integers, Sequences, FiniteSets, TLC

VARIABLES
    overflow_checks, \* build profile: TRUE = arithmetic overflow panics (debug)
    ipv4_tree,       \* PrefixTree of generate_reverse_zones / tree harness
    ipv6_tree,
    inserted,        \* tree harness: the prefixes inserted so far, in order
    rev_in,          \* function harnesses: Option of the input of the calls
    rev_out,         \* function harnesses: Option of the call outcomes
    record_files,    \* generate_reverse_zones: the extracted input records
    idx,             \* generate_reverse_zones: records consumed by the first loop
    cidr_to_nameservers,
    cidr_to_ds_rdata,
    pending,         \* generate_reverse_zones: leaves the running visit_leaf still reports
    ipv4_zone,
    ipv6_zone,
    counter,         \* ReverseRecordCounter
    pc,              \* generate_reverse_zones: control position
    last_visit,      \* generate_reverse_zones: the leaf the visitor was last called with
    zone,            \* zone harness: a DNSZone
    add_result,      \* zone harness: Option of [record, ok] of the last add_record
    dns_records,     \* get_parsed_ns_records: the input record files
    fwd_idx,         \* get_parsed_ns_records: records consumed by the loop
    tld_to_zone,     \* get_parsed_ns_records: HashMap<String, DNSZone>
    fwd_serial,      \* get_parsed_ns_records: the SOA serial of this call
    fwd_pc,          \* get_parsed_ns_records: control position
    registry,        \* the registry checkout on disk
    cycle,           \* background_updater: number of the current cycle
    upd_pc,          \* background_updater: control position
    trace,           \* background_updater: steps finished in the current cycle
    prepared,        \* the local value a running task is about to publish
    roa_data,        \* AppState::roa_data: the RwLock and the ROA snapshot in it
    dns_data,        \* AppState::dns_data: the RwLock and the DNS snapshot in it
    published,       \* history: the snapshot values completely written so far
    reader,          \* one HTTP request: handler position and response
    left_running,    \* a git child was dropped without being waited for
    directories,     \* discover_record: the directories not yet listed
    dir_entries,     \* discover_record: the entries read_dir yielded, not yet looked at
    record_paths,    \* get_records_from_dirs: the discovered paths not yet parsed
    records_read,    \* get_records_from_dirs: the record files parsed so far
    root_found,      \* history: what exists() answered to each task of the cycle
    checkouts,       \* the checkouts that are written to the disk in this run
    git_writes,      \* how often git children left running have changed the disk
    clock            \* what the system clock can read in this run

vars == << overflow_checks, ipv4_tree, ipv6_tree, inserted, rev_in, rev_out,
           record_files, idx, cidr_to_nameservers, cidr_to_ds_rdata, pending,
           ipv4_zone, ipv6_zone, counter, pc, last_visit, zone, add_result,
           dns_records, fwd_idx, tld_to_zone, fwd_serial, fwd_pc,
           registry, cycle, upd_pc, trace, prepared, roa_data, dns_data, published,
           reader, left_running, directories, dir_entries, record_paths, records_read,
           root_found, checkouts, git_writes,
           clock >>

core_vars == << overflow_checks, ipv4_tree, ipv6_tree, inserted, rev_in, rev_out,
               record_files, idx, cidr_to_nameservers, cidr_to_ds_rdata, pending,
               ipv4_zone, ipv6_zone, counter, pc, last_visit, zone, add_result >>

fwd_vars == << dns_records, fwd_idx, tld_to_zone, fwd_serial, fwd_pc >>

upd_vars == << registry, cycle, upd_pc, trace, prepared, roa_data, dns_data, published,
              reader, left_running, directories, dir_entries, record_paths, records_read,
           root_found, checkouts, git_writes,
           clock >>

None == << >>
Some(x) == << x >>

Min(a, b) == IF a < b THEN a ELSE b

\* 1 << n, n in 0..16
Pow2(n) == << 1, 2, 4, 8, 16, 32, 64, 128, 256, 512, 1024, 2048, 4096, 8192,
              16384, 32768, 65536 >>[n + 1]

-----------------------------------------------------------------------------
(* Characters and strings                                                  *)

LowerLetters == << "a","b","c","d","e","f","g","h","i","j","k","l","m",
                   "n","o","p","q","r","s","t","u","v","w","x","y","z" >>
UpperLetters == << "A","B","C","D","E","F","G","H","I","J","K","L","M",
                   "N","O","P","Q","R","S","T","U","V","W","X","Y","Z" >>
DigitChars == << "0","1","2","3","4","5","6","7","8","9" >>
HexChars == << "0","1","2","3","4","5","6","7","8","9","a","b","c","d","e","f" >>

Range(s) == { s[i] : i \in DOMAIN s }

is_ascii_alphabetic(c) == c \in Range(LowerLetters) \cup Range(UpperLetters)
is_ascii_digit(c) == c \in Range(DigitChars)
is_ascii_alphanumeric(c) == is_ascii_alphabetic(c) \/ is_ascii_digit(c)
\* A character is a string: the character written as itself, or, for one
\* that cannot be written inside a string, its code point name ("U+" and
\* hexadecimal digits, as in "U+3000")
HexDigits == "0123456789ABCDEF"

LowerHexDigits == "0123456789abcdef"

hex_digit(d) ==
    CHOOSE n \in 0..15 :
        d \in { SubSeq(HexDigits, n + 1, n + 1), SubSeq(LowerHexDigits, n + 1, n + 1) }

RECURSIVE hex_value(_)
hex_value(digits) ==
    IF Len(digits) = 0 THEN 0
    ELSE 16 * hex_value(SubSeq(digits, 1, Len(digits) - 1))
         + hex_digit(SubSeq(digits, Len(digits), Len(digits)))

\* the characters below U+0800 that can be written as themselves, in runs of
\* consecutive code points, each run with the code point of its first
\* character; U+1680 and U+20AC after them
WrittenRuns ==
    { << 1, "	" >>,
      << 11, "" >>,
      << 14, " !" >>,
      << 35, "#$%&'()*+,-./0123456789:;<=>?@ABCDEFGHIJKLMNOPQRSTUVWXYZ[" >>,
      << 93, "]^_" >>,
      << 97, "abcdefghijklmnopqrstuvwxyz{|}~ ¡¢£¤¥¦§¨©ª«¬­®¯°±²³´µ¶·¸¹º»¼½¾¿ÀÁÂÃÄÅÆÇÈÉÊËÌÍÎÏÐÑÒÓÔÕÖ×ØÙÚÛÜÝÞßàáâãäåæçèéêëìíîïðñòóôõö÷øùúûüýþÿ" >>,
      << 384, "ƀƁƂƃƄƅƆƇƈƉƊƋƌƍƎƏƐƑƒƓƔƕƖƗƘƙƚƛƜƝƞƟƠơƢƣƤƥƦƧƨƩƪƫƬƭƮƯưƱƲƳƴƵƶƷƸƹƺƻƼƽƾƿǀǁǂǃǄǅǆǇǈǉǊǋǌǍǎǏǐǑǒǓǔǕǖǗǘǙǚǛǜǝǞǟǠǡǢǣǤǥǦǧǨǩǪǫǬǭǮǯǰǱǲǳǴǵǶǷǸǹǺǻǼǽǾǿ" >>,
      << 640, "ʀʁʂʃʄʅʆʇʈʉʊʋʌʍʎʏʐʑʒʓʔʕʖʗʘʙʚʛʜʝʞʟʠʡʢʣʤʥʦʧʨʩʪʫʬʭʮʯʰʱʲʳʴʵʶʷʸʹʺʻʼʽʾʿˀˁ˂˃˄˅ˆˇˈˉˊˋˌˍˎˏːˑ˒˓˔˕˖˗˘˙˚˛˜˝˞˟ˠˡˢˣˤ˥˦˧˨˩˪˫ˬ˭ˮ˯˰˱˲˳˴˵˶˷˸˹˺˻˼˽˾˿" >>,
      << 896, "΀΁΂΃΄΅Ά·ΈΉΊ΋Ό΍ΎΏΐΑΒΓΔΕΖΗΘΙΚΛΜΝΞΟΠΡ΢ΣΤΥΦΧΨΩΪΫάέήίΰαβγδεζηθικλμνξοπρςστυφχψωϊϋόύώϏϐϑϒϓϔϕϖϗϘϙϚϛϜϝϞϟϠϡϢϣϤϥϦϧϨϩϪϫϬϭϮϯϰϱϲϳϴϵ϶ϷϸϹϺϻϼϽϾϿ" >>,
      << 1152, "Ҁҁ҂҃҄҅҆҇҈҉ҊҋҌҍҎҏҐґҒғҔҕҖҗҘҙҚқҜҝҞҟҠҡҢңҤҥҦҧҨҩҪҫҬҭҮүҰұҲҳҴҵҶҷҸҹҺһҼҽҾҿӀӁӂӃӄӅӆӇӈӉӊӋӌӍӎӏӐӑӒӓӔӕӖӗӘәӚӛӜӝӞӟӠӡӢӣӤӥӦӧӨөӪӫӬӭӮӯӰӱӲӳӴӵӶӷӸӹӺӻӼӽӾӿ" >>,
      << 1408, "րցւփքօֆևֈ։֊֋֌֍֎֏֐ְֱֲֳִֵֶַָֹֺֻּֽ֑֖֛֢֣֤֥֦֧֪֚֭֮֒֓֔֕֗֘֙֜֝֞֟֠֡֨֩֫֬֯־ֿ׀ׁׂ׃ׅׄ׆ׇ׈׉׊׋׌׍׎׏אבגדהוזחטיךכלםמןנסעףפץצקרשת׫׬׭׮ׯװױײ׳״׵׶׷׸׹׺׻׼׽׾׿" >>,
      << 1664, "ڀځڂڃڄڅچڇڈډڊڋڌڍڎڏڐڑڒړڔڕږڗژڙښڛڜڝڞڟڠڡڢڣڤڥڦڧڨکڪګڬڭڮگڰڱڲڳڴڵڶڷڸڹںڻڼڽھڿۀہۂۃۄۅۆۇۈۉۊۋیۍێۏېۑےۓ۔ەۖۗۘۙۚۛۜ۝۞ۣ۟۠ۡۢۤۥۦۧۨ۩۪ۭ۫۬ۮۯ۰۱۲۳۴۵۶۷۸۹ۺۻۼ۽۾ۿ" >>,
      << 1920, "ހށނރބޅކއވމފދތލގޏސޑޒޓޔޕޖޗޘޙޚޛޜޝޞޟޠޡޢޣޤޥަާިީުޫެޭޮޯްޱ޲޳޴޵޶޷޸޹޺޻޼޽޾޿߀߁߂߃߄߅߆߇߈߉ߊߋߌߍߎߏߐߑߒߓߔߕߖߗߘߙߚߛߜߝߞߟߠߡߢߣߤߥߦߧߨߩߪ߲߫߬߭߮߯߰߱߳ߴߵ߶߷߸߹ߺ߻߼߽߾߿" >>,
      << 10, "\n" >>,
      << 13, "\r" >>,
      << 34, "\"" >>,
      << 92, "\\" >>,
      << 5760, " " >>,
      << 8364, "€" >> }

WrittenCodes ==
    UNION { { << SubSeq(run[2], i, i), run[1] + i - 1 >> : i \in 1..Len(run[2]) } :
            run \in WrittenRuns }

WrittenChars == { e[1] : e \in WrittenCodes }

CodePoints == [c \in WrittenChars |-> (CHOOSE e \in WrittenCodes : e[1] = c)[2]]

\* char as u32: of a name, the number it gives.  Of a character written as
\* itself that is in no run only the range is known, from U+0800 on when it is
\* one UTF-16 unit, from U+10000 on when it is two: it counts as U+FFFD or as
\* U+10000, which gives its length in bytes but not its place in an order
code_point(c) ==
    IF Len(c) > 2 THEN hex_value(SubSeq(c, 3, Len(c)))
    ELSE IF c \in WrittenChars THEN CodePoints[c]
    ELSE IF Len(c) = 2 THEN 65536
    ELSE 65533

\* char::len_utf8 of a code point
encoded_len(code) ==
    IF code < 128 THEN 1
    ELSE IF code < 2048 THEN 2
    ELSE IF code < 65536 THEN 3
    ELSE 4

len_utf8(c) == encoded_len(code_point(c))

\* the bytes the UTF-8 encoding takes beyond one per character
ExtraBytes(s) == { << i, k >> \in (DOMAIN s) \X (2..4) : k <= len_utf8(s[i]) }

\* str::len: the length in bytes of the UTF-8 encoding
str_len(s) == Len(s) + Cardinality(ExtraBytes(s))

\* the code points of the Unicode property White_Space: U+0009 to U+000D,
\* U+0020, U+0085, U+00A0, U+1680, U+2000 to U+200A, U+2028, U+2029, U+202F,
\* U+205F, U+3000
White_Space ==
    (9..13) \cup { 32, 133, 160, 5760 } \cup (8192..8202)
        \cup { 8232, 8233, 8239, 8287, 12288 }

\* char::is_whitespace
is_whitespace(c) == code_point(c) \in White_Space

\* str::trim: leading and trailing white space removed
RECURSIVE trim(_)
trim(s) ==
    IF s = << >> THEN s
    ELSE IF is_whitespace(s[1]) THEN trim(Tail(s))
    ELSE IF is_whitespace(s[Len(s)]) THEN trim(SubSeq(s, 1, Len(s) - 1))
    ELSE s

char_to_lowercase(c) ==
    IF \E i \in DOMAIN UpperLetters : UpperLetters[i] = c
    THEN LowerLetters[CHOOSE i \in DOMAIN UpperLetters : UpperLetters[i] = c]
    ELSE c

to_lowercase(s) == [i \in DOMAIN s |-> char_to_lowercase(s[i])]

\* u8::to_string / usize Display: decimal digits, no leading zeros
RECURSIVE to_string(_)
to_string(n) ==
    IF n < 10 THEN << DigitChars[n + 1] >>
    ELSE to_string(n \div 10) \o << DigitChars[(n % 10) + 1] >>

\* format!("{:x}", nibble) for a value 0..15
format_hex(n) == << HexChars[n + 1] >>

\* [String].join(".")
RECURSIVE join(_, _)
join(labels, sep) ==
    IF labels = << >> THEN << >>
    ELSE IF Len(labels) = 1 THEN labels[1]
    ELSE labels[1] \o << sep >> \o join(Tail(labels), sep)

\* str::split(sep): always at least one piece; adjacent separators give ""
RECURSIVE split(_, _)
split(s, sep) ==
    IF \A i \in DOMAIN s : s[i] # sep THEN << s >>
    ELSE LET k == CHOOSE i \in DOMAIN s :
                      s[i] = sep /\ \A j \in 1..(i - 1) : s[j] # sep
         IN << SubSeq(s, 1, k - 1) >> \o split(SubSeq(s, k + 1, Len(s)), sep)

RECURSIVE trim_end_matches(_, _)
trim_end_matches(s, c) ==
    IF s # << >> /\ s[Len(s)] = c
    THEN trim_end_matches(SubSeq(s, 1, Len(s) - 1), c)
    ELSE s

\* str::strip_suffix(c).unwrap_or(s)
strip_suffix_or(s, c) ==
    IF s # << >> /\ s[Len(s)] = c THEN SubSeq(s, 1, Len(s) - 1) ELSE s

Reverse(s) == [i \in DOMAIN s |-> s[Len(s) + 1 - i]]

-----------------------------------------------------------------------------
(* FQDNName  (src/src/model/dns.rs)                                        *)

MaxLabelLen == 63

validate_label(label) ==
    IF str_len(label) > MaxLabelLen THEN "LabelTooLong"
    ELSE IF label = << >> THEN "LabelEmpty"
    ELSE IF ~(is_ascii_alphabetic(label[1]) \/ is_ascii_digit(label[1]))
         THEN "InvalidLabelStart"
    ELSE IF ~is_ascii_alphanumeric(label[Len(label)]) THEN "InvalidLabelEnd"
    ELSE IF \E i \in DOMAIN label :
               ~is_ascii_alphanumeric(label[i]) /\ label[i] # "-" /\ label[i] # "/"
         THEN "InvalidCharacter"
    ELSE "Ok"

\* Self::validate_label(label)? over the labels in turn: the first error, or "Ok"
RECURSIVE validate_labels(_)
first_error(result, rest) == IF result # "Ok" THEN result ELSE validate_labels(rest)

validate_labels(labels) ==
    IF labels = << >> THEN "Ok" ELSE first_error(validate_label(labels[1]), Tail(labels))

FQDNName_result(name, result) ==
    IF result # "Ok" THEN [ok |-> FALSE, err |-> result]
    ELSE [ok |-> TRUE, name |-> to_lowercase(name)]

FQDNName_validated(name, to_validate) ==
    IF to_validate = << >> THEN [ok |-> FALSE, err |-> "EmptyInput"]
    ELSE FQDNName_result(name, validate_labels(split(to_validate, ".")))

\* FQDNName::new: [ok |-> TRUE, name |-> canonical] or [ok |-> FALSE, err |-> kind]
FQDNName_new(name) ==
    IF trim(name) = << >> \/ name = << " " >>
    THEN [ok |-> FALSE, err |-> "EmptyInput"]
    ELSE FQDNName_validated(name, strip_suffix_or(name, "."))

\* variant: a name of as many labels as the parent passes the length test
is_child_of_or_same(self, parent) ==
    LET self_labels == split(trim_end_matches(self, "."), ".")
        parent_labels == split(trim_end_matches(parent, "."), ".")
    IN IF Len(self_labels) < Len(parent_labels) THEN FALSE
       ELSE LET start_index == Len(self_labels) - Len(parent_labels)
            IN SubSeq(self_labels, start_index + 1, Len(self_labels)) = parent_labels

is_child_of(self, parent) ==
    LET self_labels == split(trim_end_matches(self, "."), ".")
        parent_labels == split(trim_end_matches(parent, "."), ".")
    IN IF Len(self_labels) <= Len(parent_labels) THEN FALSE
       ELSE LET start_index == Len(self_labels) - Len(parent_labels)
            IN SubSeq(self_labels, start_index + 1, Len(self_labels)) = parent_labels

-----------------------------------------------------------------------------
(* Prefix  (src/src/model/record.rs)                                       *)
(* A network is [v |-> 4 | 6, octets |-> 4 or 16 octets].                  *)

V4(a, b, c, d) == [v |-> 4, octets |-> << a, b, c, d >>]
V6(segments) ==
    [v |-> 6,
     octets |-> [i \in 1..16 |->
                    IF i % 2 = 1 THEN segments[(i + 1) \div 2] \div 256
                    ELSE segments[i \div 2] % 256]]

FamilyOctets(v) == IF v = 4 THEN 4 ELSE 16
FamilyMaxLen(v) == IF v = 4 THEN 32 ELSE 128

\* (octet >> i) & 1
Bit(octet, i) == (octet \div Pow2(i)) % 2

\* the first n bits of the octets, most significant bit of each octet first
\* (at most 8 bits per octet)
FirstBits(octets, n) ==
    [j \in 1..Min(n, 8 * Len(octets)) |->
        Bit(octets[((j - 1) \div 8) + 1], 7 - ((j - 1) % 8))]

octets_to_bits(octets, prefix_len) == FirstBits(octets, prefix_len)

\* fold of current_octet = (current_octet << 1) | bit over at most 8 bits
RECURSIVE ShiftIn(_)
ShiftIn(bits) ==
    IF bits = << >> THEN 0
    ELSE (2 * ShiftIn(SubSeq(bits, 1, Len(bits) - 1)) + bits[Len(bits)]) % 256

\* a bits_to_octets that forgets the final shift of a partial octet
bits_to_octets_unshifted(bits) ==
    LET full == Len(bits) \div 8
        rest == Len(bits) % 8
    IN [k \in 1..full |-> ShiftIn(SubSeq(bits, 8 * (k - 1) + 1, 8 * k))]
       \o (IF rest # 0 THEN << ShiftIn(SubSeq(bits, 8 * full + 1, Len(bits))) >>
           ELSE << >>)

bits_to_octets(bits) ==
    LET full == Len(bits) \div 8
        rest == Len(bits) % 8
    IN [k \in 1..full |-> ShiftIn(SubSeq(bits, 8 * (k - 1) + 1, 8 * k))]
       \o (IF rest # 0
           THEN << (ShiftIn(SubSeq(bits, 8 * full + 1, Len(bits))) * Pow2(8 - rest)) % 256 >>
           ELSE << >>)

vec_to_slice_zero_fill(n, vec) ==
    [i \in 1..n |-> IF i <= Len(vec) THEN vec[i] ELSE 0]

\* a Prefix::new that keeps the address as given
Prefix_new_unmasked(network, prefix_len) ==
    IF prefix_len > FamilyMaxLen(network.v)
    THEN [ok |-> FALSE]
    ELSE [ok |-> TRUE, prefix |-> [network |-> network, prefix_len |-> prefix_len]]

\* Prefix::new: masks the host bits
Prefix_new(network, prefix_len) ==
    IF prefix_len > FamilyMaxLen(network.v)
    THEN [ok |-> FALSE]
    ELSE [ok |-> TRUE,
          prefix |->
            [network |-> [v |-> network.v,
                          octets |-> vec_to_slice_zero_fill(FamilyOctets(network.v),
                                        bits_to_octets(
                                          octets_to_bits(network.octets, prefix_len)))],
             prefix_len |-> prefix_len]]

\* Prefix::from_str after the text is split and both parts parsed:
\* the network is kept as written
Prefix_from_str(network, prefix_len) ==
    IF prefix_len > FamilyMaxLen(network.v)
    THEN [ok |-> FALSE]
    ELSE [ok |-> TRUE, prefix |-> [network |-> network, prefix_len |-> prefix_len]]

get_bits(p) == FirstBits(p.network.octets, p.prefix_len)

\* a with_prefix_len that forgets to clear the bits beyond the new length
with_prefix_len_unmasked(p, new_prefix_len) ==
    [network |-> p.network, prefix_len |-> new_prefix_len]

with_prefix_len(p, new_prefix_len) ==
    LET bits == get_bits(p)
        truncated == SubSeq(bits, 1, Min(new_prefix_len, Len(bits)))
        octets == bits_to_octets(truncated)
    IN [network |-> [v |-> p.network.v,
                     octets |-> vec_to_slice_zero_fill(FamilyOctets(p.network.v), octets)],
        prefix_len |-> new_prefix_len]

is_multiple_of(n, k) == n % k = 0

-----------------------------------------------------------------------------
(* PrefixTree  (src/src/model/dns.rs)                                      *)
(* PrefixTree(Option<Box<PrefixNode>>), PrefixNode {prefix, zero, one}.    *)
(* Every node is owned by exactly one parent, so a node is identified by   *)
(* the bit path from the root to it: a tree is the function from the       *)
(* paths of its nodes to their `prefix` fields, and the empty function is  *)
(* the tree without root.                                                  *)

PrefixTree_new == << >>

is_none(tree, path) == path \notin DOMAIN tree

\* node.zero / node.one of the node at `path`: the path of that child
zero(path) == Append(path, 0)
one(path) == Append(path, 1)

\* insert: the root and the node of every bit of the prefix are created when
\* absent, each carrying prefix.with_prefix_len(depth); existing nodes are kept
insert(tree, prefix) ==
    LET bits == get_bits(prefix)
        walked == { SubSeq(bits, 1, i) : i \in 0..Len(bits) }
    IN [path \in (DOMAIN tree) \cup walked |->
           IF is_none(tree, path) THEN with_prefix_len(prefix, Len(path))
           ELSE tree[path]]

\* visit_node: the calls of f, in order; `at` is the path of the node the call is
\* made for (a ghost label), `arg` the prefix handed to f
RECURSIVE visit_node(_, _)
visit_node(tree, path) ==
    IF is_none(tree, path) THEN << >>
    ELSE IF is_none(tree, zero(path)) /\ is_none(tree, one(path))
         THEN << [at |-> path, arg |-> tree[path]] >>
         ELSE visit_node(tree, zero(path)) \o visit_node(tree, one(path))

visit_leaf(tree) == visit_node(tree, << >>)

\* the prefixes a collecting visitor receives (collect_leaves of the tests)
collect_leaves(tree) ==
    LET calls == visit_leaf(tree) IN [i \in DOMAIN calls |-> calls[i].arg]

-----------------------------------------------------------------------------
(* DNS records and zones  (src/src/model/dns.rs)                           *)

DEFAULT_TTL == 3600

\* DNSRecordData: `text` carries a String payload, `addr` the octets of an address
NS(target) == [type |-> "NS", text |-> target, addr |-> << >>]
CNAME(target) == [type |-> "CNAME", text |-> target, addr |-> << >>]
DS(rdata) == [type |-> "DS", text |-> rdata, addr |-> << >>]
A(ipv4) == [type |-> "A", text |-> << >>, addr |-> ipv4.octets]
AAAA(ipv6) == [type |-> "AAAA", text |-> << >>, addr |-> ipv6.octets]
PTR(ptr) == [type |-> "PTR", text |-> ptr, addr |-> << >>]
MX(preference, exchange) == [type |-> "MX", preference |-> preference, exchange |-> exchange]
TXT(txts) == [type |-> "TXT", txts |-> txts]
SRV(priority, weight, port, target) ==
    [type |-> "SRV", priority |-> priority, weight |-> weight, port |-> port,
     target |-> target]

\* match ip { V4 => A, V6 => AAAA }
AddressData(ip) == IF ip.v = 4 THEN A(ip) ELSE AAAA(ip)

DNSRecord(name, ttl, data) == [name |-> name, class |-> "IN", ttl |-> ttl, data |-> data]

SOA(mname, rname, serial, refresh, retry, expire, minimum) ==
    [type |-> "SOA", mname |-> mname, rname |-> rname, serial |-> serial,
     refresh |-> refresh, retry |-> retry, expire |-> expire, minimum |-> minimum]

\* DNSZone::new: [panic, zone]; data other than an SOA panics
\* ("SOA record data is required for DNSZone")
DNSZone_new(origin, soa) ==
    IF soa.type # "SOA" THEN [panic |-> TRUE]
    ELSE [panic |-> FALSE, zone |-> [origin |-> origin, soa |-> soa, records |-> {}]]

\* DNSZone::add_record: [ok, zone]; the record set is a HashSet
\* variant: the record is inserted without looking at its name
add_record_unchecked(z, record) ==
    [ok |-> TRUE, zone |-> [z EXCEPT !.records = @ \cup { record }]]

add_record(z, record) ==
    IF ~is_child_of(record.name, z.origin) /\ record.name # z.origin
    THEN [ok |-> FALSE, zone |-> z]
    ELSE [ok |-> TRUE, zone |-> [z EXCEPT !.records = @ \cup { record }]]

-----------------------------------------------------------------------------
(* Reverse-zone synthesizer  (src/src/parser/dns.rs)                       *)

InAddrArpa == << "i","n","-","a","d","d","r",".","a","r","p","a" >>
Ip6Arpa == << "i","p","6",".","a","r","p","a" >>

\* format!("{}.in-addr.arpa", labels.join("."))
format_in_addr(labels) == join(labels, ".") \o << "." >> \o InAddrArpa
format_ip6(labels) == join(labels, ".") \o << "." >> \o Ip6Arpa

\* get_parsed_ns_records has not been called
ForwardIdle ==
    /\ dns_records = << >>
    /\ fwd_idx = 0
    /\ tld_to_zone = << >>
    /\ fwd_serial = 0
    /\ fwd_pc = "idle"

\* SystemTime::now().duration_since(UNIX_EPOCH): an error when the clock is
\* before the epoch, else the seconds since it, here wraps * 2^32 + low
ClockReadings ==
    { [ok |-> FALSE, wraps |-> 0, low |-> 0],
      [ok |-> TRUE, wraps |-> 0, low |-> 1761750000],
      [ok |-> TRUE, wraps |-> 1, low |-> 1761750000] }

\* no updater and no request handler is running; the clock reads anything
UpdaterIdle ==
    /\ registry = << >>
    /\ cycle = 0
    /\ upd_pc = "idle"
    /\ trace = << >>
    /\ prepared = << >>
    /\ roa_data = << >>
    /\ dns_data = << >>
    /\ published = << >>
    /\ reader = << >>
    /\ left_running = << >>
    /\ directories = << >>
    /\ dir_entries = << >>
    /\ record_paths = << >>
    /\ records_read = << >>
    /\ root_found = << >>
    /\ checkouts = << >>
    /\ git_writes = 0
    /\ clock = ClockReadings

ReverseRecordCounter_default ==
    [ipv4_align |-> 0, ipv4_non_align |-> 0, ipv6_align |-> 0, ipv6_non_align |-> 0]

\* the 32 nibbles of an IPv6 address, from its eight segments
ipv6_nibbles(ipv6) ==
    LET segment(k) == ipv6.octets[2 * k - 1] * 256 + ipv6.octets[2 * k]
    IN [j \in 1..32 |->
          LET seg == segment(((j - 1) \div 4) + 1)
              shift == 12 - 4 * ((j - 1) % 4)
          IN format_hex((seg \div Pow2(shift)) % 16)]

\* [panic, name]: name is Option<FQDNName>; panic = the unwrap of an invalid name
\* variant: the name of the enclosing octet-aligned zone, whatever the length
generate_reverse_record_name_truncated(cidr) ==
    IF cidr.network.v = 4
    THEN LET parsed == FQDNName_new(format_in_addr(
                 Reverse([i \in 1..(cidr.prefix_len \div 8) |->
                             to_string(cidr.network.octets[i])])))
         IN IF parsed.ok THEN [panic |-> FALSE, name |-> Some(parsed.name)]
            ELSE [panic |-> TRUE, name |-> None]
    ELSE [panic |-> FALSE, name |-> None]

generate_reverse_record_name(cidr) ==
    LET octets == cidr.network.octets
        finish(text) ==
            LET parsed == FQDNName_new(text)
            IN IF parsed.ok THEN [panic |-> FALSE, name |-> Some(parsed.name)]
               ELSE [panic |-> TRUE, name |-> None]
    IN IF cidr.network.v = 4
       THEN IF is_multiple_of(cidr.prefix_len, 8)
            THEN LET num_octets == cidr.prefix_len \div 8
                     reversed_labels ==
                         Reverse([i \in 1..num_octets |-> to_string(octets[i])])
                 IN finish(format_in_addr(reversed_labels))
            ELSE LET num_full_octets == cidr.prefix_len \div 8
                     labels == [i \in 1..num_full_octets |-> to_string(octets[i])]
                     first_host_id == octets[num_full_octets + 1]
                     cidr_part == to_string(first_host_id) \o << "/" >>
                                  \o to_string(cidr.prefix_len)
                     with_insert_cidr_part == Append(labels, cidr_part)
                 IN finish(format_in_addr(Reverse(with_insert_cidr_part)))
       ELSE IF is_multiple_of(cidr.prefix_len, 4)
            THEN LET nibbles == ipv6_nibbles(cidr.network)
                     num_nibbles == cidr.prefix_len \div 4
                     reversed_labels == Reverse(SubSeq(nibbles, 1, num_nibbles))
                 IN finish(format_ip6(reversed_labels))
            ELSE [panic |-> FALSE, name |-> None]

\* the inner helper of generate_reverse_records
RECURSIVE generate_reverse_records_for_nameserver(_, _)
generate_reverse_records_for_nameserver(name, name_servers) ==
    IF name_servers = << >> THEN << >>
    ELSE LET ns == name_servers[1]
         IN << DNSRecord(name, DEFAULT_TTL, NS(ns.name_server)) >>
            \o (IF ns.name_server_ip # None
                THEN << DNSRecord(name, DEFAULT_TTL, AddressData(ns.name_server_ip[1])) >>
                ELSE << >>)
            \o generate_reverse_records_for_nameserver(name, Tail(name_servers))

\* variant: the block size is added without the "- 1"
last_host_id_no_decrement(first_host_id, remaining_bits) ==
    LET sum == first_host_id + Pow2(8 - remaining_bits)
    IN IF sum > 255
       THEN [panic |-> overflow_checks, value |-> sum % 256]
       ELSE [panic |-> FALSE, value |-> sum]

\* first_host_id + ((1 << (8 - remaining_bits)) - 1) in u8:
\* [panic, value]; an overflow panics or wraps according to the build profile
last_host_id(first_host_id, remaining_bits) ==
    LET sum == first_host_id + (Pow2(8 - remaining_bits) - 1)
    IN IF sum > 255
       THEN [panic |-> overflow_checks, value |-> sum % 256]
       ELSE [panic |-> FALSE, value |-> sum]

\* [panic, records, counter]
generate_reverse_records(cidr, name_servers, cnt) ==
    LET octets == cidr.network.octets
    IN IF cidr.network.v = 4
       THEN IF is_multiple_of(cidr.prefix_len, 8)
            THEN LET num_octets == cidr.prefix_len \div 8
                     reversed_labels ==
                         Reverse([i \in 1..num_octets |-> to_string(octets[i])])
                     parsed == FQDNName_new(format_in_addr(reversed_labels))
                     cnt1 == [cnt EXCEPT !.ipv4_align = @ + 1]
                 IN IF ~parsed.ok
                    THEN [panic |-> TRUE, records |-> << >>, counter |-> cnt1]
                    ELSE [panic |-> FALSE,
                          records |-> generate_reverse_records_for_nameserver(
                                          parsed.name, name_servers),
                          counter |-> cnt1]
            ELSE LET num_full_octets == cidr.prefix_len \div 8
                     remaining_bits == cidr.prefix_len % 8
                     labels == [i \in 1..num_full_octets |-> to_string(octets[i])]
                     first_host_id == octets[num_full_octets + 1]
                     cidr_part == to_string(first_host_id) \o << "/" >>
                                  \o to_string(cidr.prefix_len)
                     with_insert_cidr_part == Append(labels, cidr_part)
                     last == last_host_id(first_host_id, remaining_bits)
                     hosts == IF first_host_id <= last.value
                              THEN [j \in 1..(last.value - first_host_id + 1) |->
                                        first_host_id + j - 1]
                              ELSE << >>
                     source(host_id) ==
                         FQDNName_new(format_in_addr(
                             Reverse(Append(labels, to_string(host_id)))))
                     mapped(host_id) ==
                         format_in_addr(
                             Reverse(Append(with_insert_cidr_part, to_string(host_id))))
                     parsed == FQDNName_new(format_in_addr(Reverse(with_insert_cidr_part)))
                 IN IF \/ last.panic
                       \/ \E j \in DOMAIN hosts : ~source(hosts[j]).ok
                       \/ ~parsed.ok
                    THEN [panic |-> TRUE, records |-> << >>, counter |-> cnt]
                    ELSE [panic |-> FALSE,
                          records |->
                              [j \in DOMAIN hosts |->
                                  DNSRecord(source(hosts[j]).name, DEFAULT_TTL,
                                            CNAME(mapped(hosts[j])))]
                              \o generate_reverse_records_for_nameserver(
                                     parsed.name, name_servers),
                          counter |-> [cnt EXCEPT !.ipv4_non_align = @ + 1]]
       ELSE IF is_multiple_of(cidr.prefix_len, 4)
            THEN LET nibbles == ipv6_nibbles(cidr.network)
                     num_nibbles == cidr.prefix_len \div 4
                     reversed_labels == Reverse(SubSeq(nibbles, 1, num_nibbles))
                     parsed == FQDNName_new(format_ip6(reversed_labels))
                 IN IF ~parsed.ok
                    THEN [panic |-> TRUE, records |-> << >>, counter |-> cnt]
                    ELSE [panic |-> FALSE,
                          records |-> generate_reverse_records_for_nameserver(
                                          parsed.name, name_servers),
                          counter |-> [cnt EXCEPT !.ipv6_align = @ + 1]]
            ELSE [panic |-> FALSE, records |-> << >>,
                  counter |-> [cnt EXCEPT !.ipv6_non_align = @ + 1]]

\* [panic, records]
generate_reverse_ds_record(cidr, ds_rdata_list) ==
    LET named == generate_reverse_record_name(cidr)
    IN IF named.panic THEN [panic |-> TRUE, records |-> << >>]
       ELSE IF named.name = None THEN [panic |-> FALSE, records |-> << >>]
       ELSE [panic |-> FALSE,
             records |-> [i \in DOMAIN ds_rdata_list |->
                             DNSRecord(named.name[1], DEFAULT_TTL, DS(ds_rdata_list[i]))]]

-----------------------------------------------------------------------------
(* Inputs                                                                  *)

MaxInserts == 3

Doc6(last) == V6(<< 8193, 3512, 0, 0, 0, 0, 0, last >>)      \* 2001:db8::<last>
Ula6(last) == V6(<< 64768, 0, 0, 0, 0, 0, 0, last >>)        \* fd00::<last>
Zero6 == V6(<< 0, 0, 0, 0, 0, 0, 0, 0 >>)                    \* ::

Unwrap(r) == r.prefix

\* prefixes as the parser produces them (Prefix::from_str keeps the network as
\* written) and as Prefix::new produces them (host bits masked)
TreePrefixes ==
    { Unwrap(Prefix_from_str(V4(0, 0, 0, 0), 0)),
      Unwrap(Prefix_from_str(V4(10, 0, 0, 0), 8)),
      Unwrap(Prefix_from_str(V4(10, 0, 0, 1), 8)),
      Unwrap(Prefix_new(V4(10, 0, 0, 1), 8)),
      Unwrap(Prefix_from_str(V4(10, 128, 0, 1), 9)),
      Unwrap(Prefix_from_str(V4(10, 128, 0, 1), 32)),
      Unwrap(Prefix_new(Ula6(1), 9)) }

\* ExtractedNameServerInfo values: with IPv4 glue, without glue, with IPv6 glue
NsGlue4 ==
    [name_server |-> << "n","s","1",".","d","n","4","2" >>,
     name_server_ip |-> Some(V4(172, 20, 0, 53))]
NsNoGlue ==
    [name_server |-> << "n","s","2",".","d","n","4","2","." >>,
     name_server_ip |-> None]
NsGlue6 ==
    [name_server |-> << "n","s","3",".","d","n","4","2" >>,
     name_server_ip |-> Some(Ula6(53))]

NameServerLists ==
    { << >>, << NsGlue4 >>, << NsNoGlue >>, << NsGlue4, NsNoGlue >>,
      << NsGlue6, NsGlue4 >> }

DsRdata1 == << "1","2","3","4","5"," ","8"," ","2"," ","a","b" >>
DsRdata2 == << "7"," ","1","3"," ","2"," ","c","d" >>

DsRdataLists == { << >>, << DsRdata1, DsRdata2 >> }

SeqsUpTo(S, n) == UNION { [1..k -> S] : k \in 0..n }

\* prefixes as generate_reverse_records receives them: built by Prefix::new (the
\* unit tests) or reported by a trie (with_prefix_len), host bits cleared
ReversePrefixes ==
    { Unwrap(Prefix_new(V4(0, 0, 0, 0), 0)),
      Unwrap(Prefix_new(V4(10, 0, 0, 0), 8)),
      Unwrap(Prefix_new(V4(172, 16, 0, 0), 16)),
      Unwrap(Prefix_new(V4(192, 0, 2, 0), 24)),
      Unwrap(Prefix_new(V4(192, 0, 2, 1), 32)),
      Unwrap(Prefix_new(V4(11, 0, 0, 0), 7)),
      Unwrap(Prefix_new(V4(172, 16, 128, 0), 17)),
      Unwrap(Prefix_new(V4(172, 16, 255, 0), 23)),
      Unwrap(Prefix_new(V4(192, 0, 2, 128), 25)),
      Unwrap(Prefix_new(V4(192, 0, 2, 64), 26)),
      Unwrap(Prefix_new(V4(192, 0, 2, 240), 28)),
      Unwrap(Prefix_new(V4(192, 0, 2, 4), 30)),
      Unwrap(Prefix_new(V4(192, 0, 2, 255), 31)),
      Unwrap(Prefix_new(Zero6, 0)),
      Unwrap(Prefix_new(Ula6(0), 8)),
      Unwrap(Prefix_new(Doc6(0), 32)),
      Unwrap(Prefix_new(Doc6(0), 33)),
      Unwrap(Prefix_new(Doc6(1), 37)),
      Unwrap(Prefix_new(Doc6(1), 128)) }

-----------------------------------------------------------------------------
(* generate_reverse_zones, lines 630-637: the tree a prefix is inserted in  *)

insert_by_family(trees, cidr) ==
    IF cidr.network.v = 4
    THEN [trees EXCEPT !.v4 = insert(trees.v4, cidr)]
    ELSE [trees EXCEPT !.v6 = insert(trees.v6, cidr)]

RECURSIVE insert_all(_, _)
insert_all(trees, prefixes) ==
    IF prefixes = << >> THEN trees
    ELSE insert_all(insert_by_family(trees, prefixes[1]), Tail(prefixes))

EmptyTrees == [v4 |-> PrefixTree_new, v6 |-> PrefixTree_new]

-----------------------------------------------------------------------------
(* Tree harness: a client inserting prefixes into fresh trees              *)

\* neither a tree client, generate_reverse_zones nor a zone client is running
\* (ReverseIdle: in a build without overflow checks)
ReverseCallIdle ==
    /\ ipv4_tree = PrefixTree_new
    /\ ipv6_tree = PrefixTree_new
    /\ inserted = << >>
    /\ rev_in = None
    /\ rev_out = None
    /\ record_files = << >>
    /\ idx = 0
    /\ cidr_to_nameservers = << >>
    /\ cidr_to_ds_rdata = << >>
    /\ pending = << >>
    /\ ipv4_zone = None
    /\ ipv6_zone = None
    /\ counter = ReverseRecordCounter_default
    /\ pc = "idle"
    /\ last_visit = None
    /\ zone = None
    /\ add_result = None

ReverseIdle ==
    /\ overflow_checks = FALSE
    /\ ReverseCallIdle

Idle ==
    /\ ReverseIdle
    /\ ForwardIdle
    /\ UpdaterIdle

TreeInit == Idle

TreeInsert ==
    /\ Len(inserted) < MaxInserts
    /\ \E p \in TreePrefixes :
         LET trees == insert_by_family([v4 |-> ipv4_tree, v6 |-> ipv6_tree], p)
         IN /\ ipv4_tree' = trees.v4
            /\ ipv6_tree' = trees.v6
            /\ inserted' = Append(inserted, p)
    /\ UNCHANGED << overflow_checks, rev_in, rev_out, record_files, idx,
                    cidr_to_nameservers, cidr_to_ds_rdata, pending, ipv4_zone,
                    ipv6_zone, counter, pc, last_visit, zone, add_result >>
    /\ UNCHANGED fwd_vars
    /\ UNCHANGED upd_vars

TreeNext == TreeInsert

SpecTree == TreeInit /\ [][TreeNext]_vars

-----------------------------------------------------------------------------
(* Properties of PrefixTree (checked under SpecTree)                       *)

Trees == [v4 |-> ipv4_tree, v6 |-> ipv6_tree]
TreeOf(p) == IF p.network.v = 4 THEN ipv4_tree ELSE ipv6_tree

\* every node of a tree, by its path, with whether it has no child
NodesOf(tree) ==
    { [path |-> path,
       childless |-> \A b \in { 0, 1 } : Append(path, b) \notin DOMAIN tree] :
      path \in DOMAIN tree }

CallsAt(calls, path) == Cardinality({ i \in DOMAIN calls : calls[i].at = path })

\* q is strictly more specific than p: p's bits are a proper prefix of q's bits
MoreSpecific(q, p) ==
    /\ q.network.v = p.network.v
    /\ q.prefix_len > p.prefix_len
    /\ SubSeq(get_bits(q), 1, p.prefix_len) = get_bits(p)

\* C7, first half: visit_leaf calls the visitor exactly once for every node
\* without children and never for a node that has a child.
C7_VisitorOnlyLeaves ==
    \A tree \in { ipv4_tree, ipv6_tree } :
        LET calls == visit_leaf(tree)
        IN \A n \in NodesOf(tree) :
               CallsAt(calls, n.path) = IF n.childless THEN 1 ELSE 0

\* C7: after any sequence of inserts the visitor is called exactly once per
\* childless node and never for an internal node; and after inserting p and a
\* more-specific q (in either order) the reported leaves are [q] only.
C7_LeavesOfNestedPair ==
    /\ C7_VisitorOnlyLeaves
    /\ \A i, j \in DOMAIN inserted :
         (Len(inserted) = 2 /\ i # j /\ MoreSpecific(inserted[j], inserted[i]))
            => collect_leaves(TreeOf(inserted[j])) = << inserted[j] >>

\* C8: the trees, and the leaf sequences they report, depend only on the set of
\* distinct prefixes inserted: every reordering of the inserts, and every
\* sequence that drops or repeats duplicates, builds the same trees.
C8_OrderAndDuplicatesIrrelevant ==
    \A t \in SeqsUpTo(Range(inserted), Len(inserted)) :
        Range(t) = Range(inserted) =>
            LET other == insert_all(EmptyTrees, t)
            IN /\ other = Trees
               /\ collect_leaves(other.v4) = collect_leaves(ipv4_tree)
               /\ collect_leaves(other.v6) = collect_leaves(ipv6_tree)

\* three inserts of two distinct nested prefixes, one of them repeated, the more
\* specific one first
C8_Witness ==
    /\ Len(inserted) = 3
    /\ inserted[1] = inserted[3]
    /\ MoreSpecific(inserted[1], inserted[2])
    /\ Len(collect_leaves(TreeOf(inserted[1]))) = 1

\* C9: a fresh tree into which only p is inserted reports exactly one leaf, and
\* that leaf is equal to p, for every p built by Prefix::from_str or Prefix::new.
C9_SingleInsertReportsP ==
    Len(inserted) = 1 =>
        /\ collect_leaves(TreeOf(inserted[1])) = << inserted[1] >>
        /\ Len(collect_leaves(ipv4_tree)) + Len(collect_leaves(ipv6_tree)) = 1

-----------------------------------------------------------------------------
(* Function harness: one call of generate_reverse_records and of           *)
(* generate_reverse_ds_record on the same prefix, as the leaf visitor of   *)
(* generate_reverse_zones and the unit tests make them                     *)

RevInit ==
    /\ overflow_checks \in BOOLEAN
    /\ ipv4_tree = PrefixTree_new
    /\ ipv6_tree = PrefixTree_new
    /\ inserted = << >>
    /\ rev_in = None
    /\ rev_out = None
    /\ record_files = << >>
    /\ idx = 0
    /\ cidr_to_nameservers = << >>
    /\ cidr_to_ds_rdata = << >>
    /\ pending = << >>
    /\ ipv4_zone = None
    /\ ipv6_zone = None
    /\ counter = ReverseRecordCounter_default
    /\ pc = "idle"
    /\ last_visit = None
    /\ zone = None
    /\ add_result = None
    /\ ForwardIdle
    /\ UpdaterIdle

RevGenerateRecords ==
    /\ rev_in = None
    /\ \E cidr \in ReversePrefixes, name_servers \in NameServerLists,
          ds_rdata \in DsRdataLists :
         LET out == generate_reverse_records(cidr, name_servers, counter)
         IN /\ rev_in' = Some([cidr |-> cidr, name_servers |-> name_servers,
                               ds_rdata |-> ds_rdata])
            /\ rev_out' = Some([records |-> out, ds |-> None])
            /\ counter' = out.counter
    /\ UNCHANGED << overflow_checks, ipv4_tree, ipv6_tree, inserted, record_files,
                    idx, cidr_to_nameservers, cidr_to_ds_rdata, pending, ipv4_zone,
                    ipv6_zone, pc, last_visit, zone, add_result >>
    /\ UNCHANGED fwd_vars
    /\ UNCHANGED upd_vars

RevGenerateDs ==
    /\ rev_in # None
    /\ rev_out[1].ds = None
    /\ rev_out' = Some([rev_out[1] EXCEPT
                          !.ds = Some(generate_reverse_ds_record(rev_in[1].cidr,
                                                                 rev_in[1].ds_rdata))])
    /\ UNCHANGED << overflow_checks, ipv4_tree, ipv6_tree, inserted, rev_in,
                    record_files, idx, cidr_to_nameservers, cidr_to_ds_rdata, pending,
                    ipv4_zone, ipv6_zone, counter, pc, last_visit, zone, add_result >>
    /\ UNCHANGED fwd_vars
    /\ UNCHANGED upd_vars

RevNext == RevGenerateRecords \/ RevGenerateDs

SpecRev == RevInit /\ [][RevNext]_vars

-----------------------------------------------------------------------------
(* Properties of the reverse synthesizer functions.  The expected names    *)
(* are written as text, built from the prefix's numbers.                   *)

RECURSIVE Text(_)
Text(chars) == IF chars = << >> THEN "" ELSE chars[1] \o Text(Tail(chars))

\* "o_{k-1}. ... .o_0." : the first k octets, last first, each followed by a dot
RECURSIVE OctetSuffix(_, _)
OctetSuffix(octets, k) ==
    IF k = 0 THEN "" ELSE ToString(octets[k]) \o "." \o OctetSuffix(octets, k - 1)

HexText(n) ==
    << "0","1","2","3","4","5","6","7","8","9","a","b","c","d","e","f" >>[n + 1]

\* the n-th 4-bit group of an address, counted from 1
Nibble(octets, n) ==
    LET o == octets[(n + 1) \div 2]
    IN IF n % 2 = 1 THEN o \div 16 ELSE o % 16

RECURSIVE NibbleSuffix(_, _)
NibbleSuffix(octets, n) ==
    IF n = 0 THEN ""
    ELSE HexText(Nibble(octets, n)) \o "." \o NibbleSuffix(octets, n - 1)

IsNS(rec) == rec.data.type = "NS"
IsCNAME(rec) == rec.data.type = "CNAME"
IsAddress(rec) == rec.data.type \in { "A", "AAAA" }
HasGlue(ns) == ns.name_server_ip # None

\* records is one NS per name server, in order, one A/AAAA per inline address,
\* in order, all owned by the name whose text is owner, and nothing else
IsDelegation(records, owner, name_servers) ==
    LET ns == SelectSeq(records, IsNS)
        glue == SelectSeq(records, IsAddress)
        with_ip == SelectSeq(name_servers, HasGlue)
    IN /\ \A j \in DOMAIN records :
            /\ IsNS(records[j]) \/ IsAddress(records[j])
            /\ Text(records[j].name) = owner
            /\ records[j].ttl = DEFAULT_TTL
       /\ Len(ns) = Len(name_servers)
       /\ \A j \in DOMAIN ns : ns[j].data.text = name_servers[j].name_server
       /\ Len(glue) = Len(with_ip)
       /\ \A j \in DOMAIN glue :
            /\ glue[j].data.addr = with_ip[j].name_server_ip[1].octets
            /\ glue[j].data.type =
                   (IF with_ip[j].name_server_ip[1].v = 4 THEN "A" ELSE "AAAA")

\* C2: for an IPv4 prefix of length L = 8k + r, r # 0, whose (k+1)-th octet is
\* h, generate_reverse_records returns exactly 2^(8-r) CNAME records, one for
\* each i in h .. h + 2^(8-r) - 1, owned by i.o_{k-1}...o_0.in-addr.arpa and
\* pointing at i.h/L.o_{k-1}...o_0.in-addr.arpa, plus the NS and glue records
\* owned by h/L.o_{k-1}...o_0.in-addr.arpa
C2_NonAlignedV4Cnames ==
    rev_in # None =>
      LET cidr == rev_in[1].cidr
          out == rev_out[1].records
          L == cidr.prefix_len
          k == L \div 8
          r == L % 8
          h == cidr.network.octets[k + 1]
          zone_suffix == OctetSuffix(cidr.network.octets, k) \o "in-addr.arpa"
          delegated == ToString(h) \o "/" \o ToString(L) \o "." \o zone_suffix
          cnames == SelectSeq(out.records, IsCNAME)
          others == SelectSeq(out.records, LAMBDA rec : ~IsCNAME(rec))
      IN (cidr.network.v = 4 /\ r # 0) =>
           /\ ~out.panic
           /\ Len(cnames) = 2 ^ (8 - r)
           /\ \A i \in h..(h + 2 ^ (8 - r) - 1) :
                \E j \in DOMAIN cnames :
                   /\ Text(cnames[j].name) = ToString(i) \o "." \o zone_suffix
                   /\ Text(cnames[j].data.text) = ToString(i) \o "." \o delegated
           /\ IsDelegation(others, delegated, rev_in[1].name_servers)

\* a /25 in the upper half of its octet was synthesized with glue: 128 CNAMEs
C2_Witness ==
    /\ rev_in # None
    /\ rev_in[1].cidr.network.v = 4
    /\ rev_in[1].cidr.prefix_len = 25
    /\ rev_in[1].cidr.network.octets[4] = 128
    /\ rev_in[1].name_servers = << NsGlue4, NsNoGlue >>
    /\ Len(rev_out[1].records.records) = 128 + 3

\* C3: for an IPv4 prefix whose length L is in {0, 8, 16, 24, 32},
\* generate_reverse_records returns one NS record per name server, plus one
\* A/AAAA glue record per inline address, all owned by the reversed first L/8
\* octets under in-addr.arpa, and no CNAME record
C3_AlignedV4Delegation ==
    rev_in # None =>
      LET cidr == rev_in[1].cidr
          out == rev_out[1].records
          k == cidr.prefix_len \div 8
          owner == OctetSuffix(cidr.network.octets, k) \o "in-addr.arpa"
      IN (cidr.network.v = 4 /\ cidr.prefix_len \in { 0, 8, 16, 24, 32 }) =>
           /\ ~out.panic
           /\ IsDelegation(out.records, owner, rev_in[1].name_servers)

\* the same for the lengths that have at least one full octet
C3_AlignedV4FromOneOctet ==
    rev_in # None =>
      LET cidr == rev_in[1].cidr
          out == rev_out[1].records
          k == cidr.prefix_len \div 8
          owner == OctetSuffix(cidr.network.octets, k) \o "in-addr.arpa"
      IN (cidr.network.v = 4 /\ cidr.prefix_len \in { 8, 16, 24, 32 }) =>
           /\ ~out.panic
           /\ IsDelegation(out.records, owner, rev_in[1].name_servers)

\* the /0 call: the name ".in-addr.arpa" has an empty label and the unwrap panics
C3_Witness ==
    /\ rev_in # None
    /\ rev_in[1].cidr.network.v = 4
    /\ rev_in[1].cidr.prefix_len = 0
    /\ rev_in[1].name_servers # << >>
    /\ rev_out[1].records.panic

\* C5: generate_reverse_record_name gives the name that owns the NS records of
\* generate_reverse_records for the same prefix (the aligned reverse name when
\* the prefix is aligned, h/L.<octets>.in-addr.arpa for a non-aligned IPv4
\* prefix, none for a non-nibble-aligned IPv6 prefix), and
\* generate_reverse_ds_record emits nothing exactly when no delegation is
\* emitted for the prefix
C5_NameOwnsDelegation ==
    (rev_in # None /\ rev_out[1].ds # None) =>
      LET cidr == rev_in[1].cidr
          octets == cidr.network.octets
          L == cidr.prefix_len
          out == rev_out[1].records
          ds == rev_out[1].ds[1]
          named == generate_reverse_record_name(cidr)
          ns == SelectSeq(out.records, IsNS)
      IN /\ named.panic = out.panic
         /\ ds.panic = out.panic
         /\ ~out.panic =>
              /\ \A j \in DOMAIN ns : named.name = Some(ns[j].name)
              /\ \A j \in DOMAIN ds.records :
                    /\ named.name = Some(ds.records[j].name)
                    /\ ds.records[j].data = DS(rev_in[1].ds_rdata[j])
              /\ (cidr.network.v = 4 /\ L % 8 = 0) =>
                    /\ named.name # None
                    /\ Text(named.name[1]) = OctetSuffix(octets, L \div 8) \o "in-addr.arpa"
              /\ (cidr.network.v = 4 /\ L % 8 # 0) =>
                    /\ named.name # None
                    /\ Text(named.name[1]) =
                          ToString(octets[L \div 8 + 1]) \o "/" \o ToString(L) \o "."
                          \o OctetSuffix(octets, L \div 8) \o "in-addr.arpa"
              /\ (cidr.network.v = 6 /\ L % 4 = 0) =>
                    /\ named.name # None
                    /\ Text(named.name[1]) = NibbleSuffix(octets, L \div 4) \o "ip6.arpa"
              /\ (cidr.network.v = 6 /\ L % 4 # 0) => named.name = None
              /\ (rev_in[1].name_servers # << >> /\ rev_in[1].ds_rdata # << >>) =>
                    (ds.records = << >> <=> ns = << >>)
              /\ named.name = None => (ds.records = << >> /\ out.records = << >>)

\* both synthesizers ran on a non-aligned IPv4 prefix with name servers and DS
\* data, and both emitted records
C5_Witness ==
    /\ rev_in # None
    /\ rev_out[1].ds # None
    /\ rev_in[1].cidr.network.v = 4
    /\ rev_in[1].cidr.prefix_len = 28
    /\ rev_in[1].name_servers # << >>
    /\ Len(rev_out[1].ds[1].records) = 2

\* the same on an IPv6 prefix that is not nibble-aligned: nothing is emitted
C5_WitnessNoDelegation ==
    /\ rev_in # None
    /\ rev_out[1].ds # None
    /\ rev_in[1].cidr.network.v = 6
    /\ rev_in[1].cidr.prefix_len = 33
    /\ rev_in[1].name_servers # << >>
    /\ rev_in[1].ds_rdata # << >>
    /\ rev_out[1].ds[1].records = << >>

-----------------------------------------------------------------------------
(* generate_reverse_zones: extraction of the record files, the two tries,  *)
(* the two side maps and the leaf visitors                                 *)

MaxFiles == 2

dns_primary_master == << "n","s",".","d","n","4","2","." >>
dns_responsible_person == << "d","n","s",".","d","n","4","2","." >>

\* .map(|d| d.as_secs() as u32).unwrap_or(0): the low 32 bits of the seconds,
\* 0 when the clock is before the epoch
serial_of(reading) == IF reading.ok THEN reading.low ELSE 0

\* the serials a synthesizer can take: every call reads the clock afresh, and
\* nothing orders the readings of two calls
Now == { serial_of(reading) : reading \in clock }

\* a record file after the line parser: each field is absent or a list of
\* values.  A cidr value is the address and the length as written; an nserver
\* value is its whitespace-separated tokens: the name (absent on a blank value)
\* and, optionally, the address token (None inside when it does not parse)
RecordFile(cidr, nserver, ds_rdata) ==
    [cidr |-> cidr, nserver |-> nserver, ds_rdata |-> ds_rdata]
CidrValue(network, prefix_len) == [network |-> network, prefix_len |-> prefix_len]
NsValue(name, ip) == [name |-> name, ip |-> ip]

NsName1 == << "N","s","1",".","d","n","4","2" >>
NsName2 == << "n","s","2",".","d","n","4","2","." >>
NsNameBad == << "-","n","s",".","d","n","4","2" >>

WithGlue4 == Some(<< NsValue(Some(NsName1), Some(Some(V4(172, 20, 0, 53)))) >>)
WithoutGlue == Some(<< NsValue(Some(NsName2), None) >>)
WithGlue6 == Some(<< NsValue(Some(NsName1), Some(Some(Ula6(53)))),
                     NsValue(Some(NsName2), None) >>)

RecordFilePool ==
    { RecordFile(Some(<< CidrValue(V4(10, 0, 0, 0), 8) >>), WithGlue4, None),
      RecordFile(Some(<< CidrValue(V4(10, 0, 0, 0), 24) >>), WithoutGlue,
                 Some(<< DsRdata1 >>)),
      RecordFile(Some(<< CidrValue(V4(10, 0, 0, 0), 16) >>), None, Some(<< DsRdata1 >>)),
      RecordFile(Some(<< CidrValue(V4(192, 0, 2, 4), 30) >>), WithGlue4,
                 Some(<< DsRdata1, DsRdata2 >>)),
      RecordFile(Some(<< CidrValue(V4(0, 0, 0, 0), 0) >>), WithoutGlue, None),
      RecordFile(Some(<< CidrValue(V4(10, 0, 0, 1), 8) >>), WithoutGlue, None),
      RecordFile(Some(<< CidrValue(V4(10, 0, 0, 0), 8), CidrValue(V4(10, 0, 0, 0), 24) >>),
                 WithGlue4, None),
      RecordFile(Some(<< CidrValue(V4(10, 0, 0, 0), 24) >>),
                 Some(<< NsValue(Some(NsNameBad), None) >>), None),
      RecordFile(Some(<< CidrValue(Doc6(0), 32) >>), WithGlue6, Some(<< DsRdata1 >>)),
      RecordFile(Some(<< CidrValue(Doc6(0), 33) >>), WithGlue6, Some(<< DsRdata1 >>)),
      RecordFile(Some(<< CidrValue(Doc6(1), 33) >>), WithoutGlue, None),
      RecordFile(Some(<< CidrValue(Ula6(0), 8) >>), WithoutGlue, None) }

\* TryFrom<&RecordFile> for Vec<ExtractedNameServerInfo>: [ok, name_servers]
RECURSIVE extract_name_servers(_)
extract_name_servers(nservers) ==
    IF nservers = << >> THEN [ok |-> TRUE, name_servers |-> << >>]
    ELSE LET nserver == nservers[1]
         IN IF nserver.name = None THEN [ok |-> FALSE]
            ELSE LET name_server == FQDNName_new(nserver.name[1])
                 IN IF ~name_server.ok THEN [ok |-> FALSE]
                    ELSE IF nserver.ip # None /\ nserver.ip[1] = None THEN [ok |-> FALSE]
                    ELSE LET rest == extract_name_servers(Tail(nservers))
                             info == [name_server |-> name_server.name,
                                      name_server_ip |->
                                          IF nserver.ip = None THEN None
                                          ELSE Some(nserver.ip[1][1])]
                         IN IF ~rest.ok THEN [ok |-> FALSE]
                            ELSE [ok |-> TRUE,
                                  name_servers |-> << info >> \o rest.name_servers]

ExtractedNameServerInfo_try_from(record_file) ==
    IF record_file.nserver = None THEN [ok |-> TRUE, name_servers |-> << >>]
    ELSE extract_name_servers(record_file.nserver[1])

\* TryFrom<&RecordFile> for ExtractedNetworkInfo: [ok, info]
ExtractedNetworkInfo_try_from(record_file) ==
    IF record_file.cidr = None THEN [ok |-> FALSE]
    ELSE LET prefixes == record_file.cidr[1]
         IN IF Len(prefixes) # 1 THEN [ok |-> FALSE]
            ELSE LET cidr == Prefix_from_str(prefixes[1].network, prefixes[1].prefix_len)
                     name_servers == ExtractedNameServerInfo_try_from(record_file)
                 IN IF ~cidr.ok \/ ~name_servers.ok THEN [ok |-> FALSE]
                    ELSE [ok |-> TRUE,
                          info |-> [cidr |-> cidr.prefix,
                                    name_servers |-> name_servers.name_servers,
                                    ds_rdata |-> IF record_file.ds_rdata = None THEN << >>
                                                 ELSE record_file.ds_rdata[1]]]

\* the data handed to DNSZone::new is an SOA, so the zone is built
new_zone(tld, primary_master, responsible_person, serial) ==
    DNSZone_new(FQDNName_new(tld).name,
                SOA(primary_master, responsible_person, serial, 3600, 600, 604800, 1440)).zone

\* HashMap::insert
map_insert(map, key, value) ==
    [k \in (DOMAIN map) \cup { key } |-> IF k = key THEN value ELSE map[k]]

\* for record in records { if let Err(e) = zone.add_record(record) { error!(..) } }
\* the zone after the loop: whether add_record takes a record depends on its
\* name and the origin alone, so the records it takes are the same in any order
add_records(z, records) ==
    [z EXCEPT !.records =
        @ \cup { records[i] : i \in { j \in DOMAIN records : add_record(z, records[j]).ok } }]

\* the closure given to visit_leaf, called on one leaf: [panic, zone, counter]
visitor(prefix, z, cnt) ==
    IF prefix \notin DOMAIN cidr_to_nameservers \/ prefix \notin DOMAIN cidr_to_ds_rdata
    THEN [panic |-> TRUE, zone |-> z, counter |-> cnt]
    ELSE LET generated == generate_reverse_records(prefix, cidr_to_nameservers[prefix], cnt)
             ds == generate_reverse_ds_record(prefix, cidr_to_ds_rdata[prefix])
         IN IF generated.panic \/ ds.panic
            THEN [panic |-> TRUE, zone |-> z, counter |-> generated.counter]
            ELSE [panic |-> FALSE,
                  zone |-> add_records(add_records(z, generated.records), ds.records),
                  counter |-> generated.counter]

Init ==
    /\ overflow_checks \in BOOLEAN
    /\ record_files \in SeqsUpTo(RecordFilePool, MaxFiles)
    /\ pc = "start"
    /\ ipv4_tree = PrefixTree_new
    /\ ipv6_tree = PrefixTree_new
    /\ inserted = << >>
    /\ rev_in = None
    /\ rev_out = None
    /\ idx = 0
    /\ cidr_to_nameservers = << >>
    /\ cidr_to_ds_rdata = << >>
    /\ pending = << >>
    /\ ipv4_zone = None
    /\ ipv6_zone = None
    /\ counter = ReverseRecordCounter_default
    /\ last_visit = None
    /\ zone = None
    /\ add_result = None
    /\ ForwardIdle
    /\ UpdaterIdle

\* lines 587-615: the two zones with their apex NS record, the empty tries and maps
Start ==
    /\ pc = "start"
    /\ \E serial \in Now :
         LET in_addr == FQDNName_new(InAddrArpa)
             ip6 == FQDNName_new(Ip6Arpa)
             v4 == add_record(
                       new_zone(InAddrArpa, dns_primary_master, dns_responsible_person,
                                serial),
                       DNSRecord(in_addr.name, DEFAULT_TTL, NS(dns_primary_master)))
             v6 == add_record(
                       new_zone(Ip6Arpa, dns_primary_master, dns_responsible_person,
                                serial),
                       DNSRecord(ip6.name, DEFAULT_TTL, NS(dns_primary_master)))
         IN IF in_addr.ok /\ ip6.ok /\ v4.ok /\ v6.ok
            THEN /\ ipv4_zone' = Some(v4.zone)
                 /\ ipv6_zone' = Some(v6.zone)
                 /\ pc' = "loop"
            ELSE /\ pc' = "panicked"
                 /\ UNCHANGED << ipv4_zone, ipv6_zone >>
    /\ UNCHANGED << overflow_checks, ipv4_tree, ipv6_tree, inserted, rev_in, rev_out,
                    record_files, idx, cidr_to_nameservers, cidr_to_ds_rdata, pending,
                    counter, last_visit, zone, add_result >>
    /\ UNCHANGED fwd_vars
    /\ UNCHANGED upd_vars

\* lines 617-639: one iteration of the loop over record_files
LoopStep ==
    /\ pc = "loop"
    /\ idx < Len(record_files)
    /\ idx' = idx + 1
    /\ LET extracted_info == ExtractedNetworkInfo_try_from(record_files[idx + 1])
       IN IF extracted_info.ok /\ extracted_info.info.name_servers # << >>
          THEN LET info == extracted_info.info
                   trees == insert_by_family([v4 |-> ipv4_tree, v6 |-> ipv6_tree],
                                             info.cidr)
               IN /\ cidr_to_nameservers' =
                         map_insert(cidr_to_nameservers, info.cidr, info.name_servers)
                  /\ cidr_to_ds_rdata' =
                         map_insert(cidr_to_ds_rdata, info.cidr, info.ds_rdata)
                  /\ ipv4_tree' = trees.v4
                  /\ ipv6_tree' = trees.v6
          ELSE UNCHANGED << cidr_to_nameservers, cidr_to_ds_rdata, ipv4_tree, ipv6_tree >>
    /\ UNCHANGED << overflow_checks, inserted, rev_in, rev_out, record_files, pending,
                    ipv4_zone, ipv6_zone, counter, pc, last_visit, zone, add_result >>
    /\ UNCHANGED fwd_vars
    /\ UNCHANGED upd_vars

\* lines 641-643: the counter is created and ipv4_tree.visit_leaf starts
BeginVisit4 ==
    /\ pc = "loop"
    /\ idx = Len(record_files)
    /\ counter' = ReverseRecordCounter_default
    /\ pending' = collect_leaves(ipv4_tree)
    /\ pc' = "visit4"
    /\ UNCHANGED << overflow_checks, ipv4_tree, ipv6_tree, inserted, rev_in, rev_out,
                    record_files, idx, cidr_to_nameservers, cidr_to_ds_rdata, ipv4_zone,
                    ipv6_zone, last_visit, zone, add_result >>
    /\ UNCHANGED fwd_vars
    /\ UNCHANGED upd_vars

\* lines 643-658: the IPv4 visitor on the next leaf
Visit4 ==
    /\ pc = "visit4"
    /\ pending # << >>
    /\ \E out \in { visitor(Head(pending), ipv4_zone[1], counter) } :
          /\ last_visit' = Some([prefix |-> Head(pending), zone |-> ipv4_zone[1],
                                 counter |-> counter])
          /\ ipv4_zone' = Some(out.zone)
          /\ counter' = out.counter
          /\ pending' = Tail(pending)
          /\ pc' = IF out.panic THEN "panicked" ELSE "visit4"
    /\ UNCHANGED << overflow_checks, ipv4_tree, ipv6_tree, inserted, rev_in, rev_out,
                    record_files, idx, cidr_to_nameservers, cidr_to_ds_rdata, ipv6_zone,
                    zone, add_result >>
    /\ UNCHANGED fwd_vars
    /\ UNCHANGED upd_vars

\* line 660: ipv4_tree.visit_leaf has returned, ipv6_tree.visit_leaf starts
BeginVisit6 ==
    /\ pc = "visit4"
    /\ pending = << >>
    /\ pending' = collect_leaves(ipv6_tree)
    /\ pc' = "visit6"
    /\ UNCHANGED << overflow_checks, ipv4_tree, ipv6_tree, inserted, rev_in, rev_out,
                    record_files, idx, cidr_to_nameservers, cidr_to_ds_rdata, ipv4_zone,
                    ipv6_zone, counter, last_visit, zone, add_result >>
    /\ UNCHANGED fwd_vars
    /\ UNCHANGED upd_vars

\* lines 660-674: the IPv6 visitor on the next leaf
Visit6 ==
    /\ pc = "visit6"
    /\ pending # << >>
    /\ \E out \in { visitor(Head(pending), ipv6_zone[1], counter) } :
          /\ last_visit' = Some([prefix |-> Head(pending), zone |-> ipv6_zone[1],
                                 counter |-> counter])
          /\ ipv6_zone' = Some(out.zone)
          /\ counter' = out.counter
          /\ pending' = Tail(pending)
          /\ pc' = IF out.panic THEN "panicked" ELSE "visit6"
    /\ UNCHANGED << overflow_checks, ipv4_tree, ipv6_tree, inserted, rev_in, rev_out,
                    record_files, idx, cidr_to_nameservers, cidr_to_ds_rdata, ipv4_zone,
                    zone, add_result >>
    /\ UNCHANGED fwd_vars
    /\ UNCHANGED upd_vars

\* lines 676-679: vec![ipv4_zone, ipv6_zone] is returned
Return ==
    /\ pc = "visit6"
    /\ pending = << >>
    /\ pc' = "done"
    /\ UNCHANGED << overflow_checks, ipv4_tree, ipv6_tree, inserted, rev_in, rev_out,
                    record_files, idx, cidr_to_nameservers, cidr_to_ds_rdata, pending,
                    ipv4_zone, ipv6_zone, counter, last_visit, zone, add_result >>
    /\ UNCHANGED fwd_vars
    /\ UNCHANGED upd_vars

Next ==
    \/ Start
    \/ LoopStep
    \/ BeginVisit4
    \/ Visit4
    \/ BeginVisit6
    \/ Visit6
    \/ Return

Spec == Init /\ [][Next]_vars

-----------------------------------------------------------------------------
(* Properties of generate_reverse_zones                                    *)

Terminal == pc \in { "done", "panicked" }

Extracted(i) == ExtractedNetworkInfo_try_from(record_files[i])

\* the prefixes of the record files that were extracted with a name server
WithNameServers ==
    { Extracted(i).info.cidr :
        i \in { j \in DOMAIN record_files :
                  Extracted(j).ok /\ Extracted(j).info.name_servers # << >> } }

SameBlock(p, q) ==
    /\ p.network.v = q.network.v
    /\ p.prefix_len = q.prefix_len
    /\ get_bits(p) = get_bits(q)

\* the text of the name that owns the delegation of p ("" when p has none)
NsOwnerText(p) ==
    LET octets == p.network.octets
        L == p.prefix_len
    IN IF p.network.v = 4
       THEN IF L % 8 = 0 THEN OctetSuffix(octets, L \div 8) \o "in-addr.arpa"
            ELSE LET size == 2 ^ (8 - (L % 8))
                     h == (octets[L \div 8 + 1] \div size) * size
                 IN ToString(h) \o "/" \o ToString(L) \o "."
                    \o OctetSuffix(octets, L \div 8) \o "in-addr.arpa"
       ELSE IF L % 4 = 0 THEN NibbleSuffix(octets, L \div 4) \o "ip6.arpa"
            ELSE ""

ApexRecord(z) == DNSRecord(z.origin, DEFAULT_TTL, NS(dns_primary_master))

\* z holds an NS record, other than its apex record, owned by p's reverse name
Delegated(z, p) ==
    \E rec \in z.records \ { ApexRecord(z) } :
        IsNS(rec) /\ Text(rec.name) = NsOwnerText(p)

OnlyIPv4Files ==
    \A i \in DOMAIN record_files :
        record_files[i].cidr # None =>
            \A j \in DOMAIN record_files[i].cidr[1] :
                record_files[i].cidr[1][j].network.v = 4

\* records are in the IPv4 zone for exactly the prefixes that have a name server
\* and no strictly more specific prefix with a name server
LeafIffRecords ==
    \A i \in DOMAIN record_files :
        (Extracted(i).ok /\ Extracted(i).info.cidr.network.v = 4) =>
            LET p == Extracted(i).info.cidr
            IN Delegated(ipv4_zone[1], p) <=>
                  /\ \E q \in WithNameServers : SameBlock(q, p)
                  /\ ~ \E q \in WithNameServers : MoreSpecific(q, p)

\* C1: for any list of IPv4 inetnum records, generate_reverse_zones adds
\* reverse-delegation records for a prefix that has a name server if and only if
\* no other prefix with a name server is strictly more specific; prefixes
\* without name servers neither produce records nor shadow a covering prefix
C1_LeafIffRecords ==
    (Terminal /\ OnlyIPv4Files) => (pc = "done" /\ LeafIffRecords)

\* the same for the calls that return
LeafIffRecordsWhenReturned ==
    pc = "done" => LeafIffRecords

\* a single IPv4 record with a name server, and the call panicked in the visitor
C1_Witness ==
    /\ pc = "panicked"
    /\ OnlyIPv4Files
    /\ Len(record_files) = 1
    /\ WithNameServers # {}
    /\ last_visit # None

\* C4: when the IPv6 visitor is called on a leaf whose length is not a multiple
\* of 4, no record is added to the ip6.arpa zone, ipv6_non_align grows by
\* exactly one, the other three counters are unchanged, and synthesis continues
C4_NonAlignedV6LeafSkipped ==
    (/\ last_visit # None
     /\ last_visit[1].prefix.network.v = 6
     /\ last_visit[1].prefix.prefix_len % 4 # 0)
    => /\ pc # "panicked"
       /\ ipv6_zone[1] = last_visit[1].zone
       /\ counter = [last_visit[1].counter EXCEPT !.ipv6_non_align = @ + 1]

\* the same for the leaves that are keys of the side maps
NonAlignedV6LeafSkippedWhenFound ==
    (/\ last_visit # None
     /\ last_visit[1].prefix.network.v = 6
     /\ last_visit[1].prefix.prefix_len % 4 # 0
     /\ last_visit[1].prefix \in DOMAIN cidr_to_nameservers)
    => /\ pc # "panicked"
       /\ ipv6_zone[1] = last_visit[1].zone
       /\ counter = [last_visit[1].counter EXCEPT !.ipv6_non_align = @ + 1]

\* the visitor was called on a non-nibble-aligned IPv6 leaf and panicked
C4_Witness ==
    /\ last_visit # None
    /\ last_visit[1].prefix.network.v = 6
    /\ last_visit[1].prefix.prefix_len = 33
    /\ pc = "panicked"
    /\ counter.ipv6_non_align = 0

TwoZonesWithApexNS ==
    /\ ipv4_zone # None
    /\ ipv6_zone # None
    /\ Text(ipv4_zone[1].origin) = "in-addr.arpa"
    /\ Text(ipv6_zone[1].origin) = "ip6.arpa"
    /\ \A z \in { ipv4_zone[1], ipv6_zone[1] } :
          \E rec \in z.records :
              IsNS(rec) /\ rec.name = z.origin /\ rec.data.text = dns_primary_master

\* C6: for every input list of inetnum records, the empty list included,
\* generate_reverse_zones returns exactly two zones, with origins in-addr.arpa
\* and ip6.arpa, each holding an NS record at its apex whose target is the
\* configured primary master
C6_ReturnsTwoZones ==
    Terminal => (pc = "done" /\ TwoZonesWithApexNS)

\* the same for the calls that return
TwoZonesWhenReturned ==
    pc = "done" => TwoZonesWithApexNS

\* the call ended in a panic of the IPv4 visitor: nothing is returned
C6_Witness ==
    /\ pc = "panicked"
    /\ last_visit # None
    /\ last_visit[1].prefix.network.v = 4
    /\ last_visit[1].prefix.prefix_len = 0

-----------------------------------------------------------------------------
(* Zone harness: a client adding records to one DNSZone                    *)

Dn42 == << "d","n","4","2" >>
ADn42Dot == << "a",".","d","n","4","2","." >>

ZoneOrigins == { Dn42, ADn42Dot }

\* names as FQDNName::new stores them: equal to an origin, the same name with
\* or without the root dot, children, grandchildren, siblings and strangers
ZoneNames ==
    { FQDNName_new(name).name :
        name \in { Dn42,
                   << "D","N","4","2","." >>,
                   << "a",".","d","n","4","2" >>,
                   ADn42Dot,
                   << "b",".","A",".","d","n","4","2" >>,
                   << "x","d","n","4","2" >>,
                   << "d","n","4","2",".","c","o","m" >> } }

ZoneRecords ==
    { DNSRecord(name, DEFAULT_TTL, NS(NsName2)) : name \in ZoneNames }
    \cup { DNSRecord(ADn42Dot, 300, A(V4(172, 20, 0, 53))),
           DNSRecord(Dn42, DEFAULT_TTL, NS(dns_primary_master)) }

ZoneInit ==
    /\ \E origin \in ZoneOrigins :
         zone = Some(new_zone(origin, dns_primary_master, dns_responsible_person, 0))
    /\ add_result = None
    /\ overflow_checks = FALSE
    /\ ipv4_tree = PrefixTree_new
    /\ ipv6_tree = PrefixTree_new
    /\ inserted = << >>
    /\ rev_in = None
    /\ rev_out = None
    /\ record_files = << >>
    /\ idx = 0
    /\ cidr_to_nameservers = << >>
    /\ cidr_to_ds_rdata = << >>
    /\ pending = << >>
    /\ ipv4_zone = None
    /\ ipv6_zone = None
    /\ counter = ReverseRecordCounter_default
    /\ pc = "idle"
    /\ last_visit = None
    /\ ForwardIdle
    /\ UpdaterIdle

\* zone.add_record(record), the Result kept by the caller
ZoneAddRecord ==
    /\ zone # None
    /\ \E record \in ZoneRecords :
         LET result == add_record(zone[1], record)
         IN /\ zone' = Some(result.zone)
            /\ add_result' = Some([record |-> record, ok |-> result.ok,
                                   before |-> zone[1].records])
    /\ UNCHANGED << overflow_checks, ipv4_tree, ipv6_tree, inserted, rev_in, rev_out,
                    record_files, idx, cidr_to_nameservers, cidr_to_ds_rdata, pending,
                    ipv4_zone, ipv6_zone, counter, pc, last_visit >>
    /\ UNCHANGED fwd_vars
    /\ UNCHANGED upd_vars

ZoneNext == ZoneAddRecord

SpecZone == ZoneInit /\ [][ZoneNext]_vars

\* the name without its trailing dots
RECURSIVE WithoutRootDot(_)
WithoutRootDot(name) ==
    IF name # << >> /\ name[Len(name)] = "."
    THEN WithoutRootDot(SubSeq(name, 1, Len(name) - 1))
    ELSE name

EndsWith(text, suffix) ==
    /\ Len(text) >= Len(suffix)
    /\ SubSeq(text, Len(text) - Len(suffix) + 1, Len(text)) = suffix

\* name is origin itself, or its labels are one or more labels followed by the
\* labels of origin
WithinOrigin(name, origin) ==
    \/ name = origin
    \/ EndsWith(WithoutRootDot(name), << "." >> \o WithoutRootDot(origin))

\* C10: after any sequence of add_record calls every record of the zone has a
\* name equal to the origin or a child of the origin; a call whose record name
\* is outside the origin returns an error and leaves the record set unchanged;
\* adding a record equal to one already present leaves the set unchanged
C10_RecordsWithinOrigin ==
    /\ \A rec \in zone[1].records : WithinOrigin(rec.name, zone[1].origin)
    /\ add_result # None =>
         LET r == add_result[1]
         IN /\ ~WithinOrigin(r.record.name, zone[1].origin) =>
                  (~r.ok /\ zone[1].records = r.before)
            /\ WithinOrigin(r.record.name, zone[1].origin) =>
                  (r.ok /\ zone[1].records = r.before \cup { r.record })
            /\ r.record \in r.before => zone[1].records = r.before

\* a record outside the origin was refused by a zone that already holds records
C10_Witness ==
    /\ add_result # None
    /\ ~add_result[1].ok
    /\ ~WithinOrigin(add_result[1].record.name, zone[1].origin)
    /\ Cardinality(zone[1].records) >= 2

\* a record already present was added again
C10_WitnessDuplicate ==
    /\ add_result # None
    /\ add_result[1].ok
    /\ add_result[1].record \in add_result[1].before
    /\ Cardinality(zone[1].records) >= 2

-----------------------------------------------------------------------------
(* Forward-zone synthesizer  (src/src/parser/dns.rs)                       *)

MaxDomainFiles == 2

\* a domain object after the line parser, fields as in RecordFile
DomainFile(domain, nserver, ds_rdata) ==
    [domain |-> domain, nserver |-> nserver, ds_rdata |-> ds_rdata]

\* FQDNName::tld: the last label once trailing dots are trimmed
FQDNName_tld(name) ==
    LET labels == split(trim_end_matches(name, "."), ".")
    IN IF labels = << >> THEN None ELSE Some(labels[Len(labels)])

\* TryFrom<&RecordFile> for ExtractedDomainInfo: [ok, info]
ExtractedDomainInfo_try_from(record_file) ==
    IF record_file.domain = None THEN [ok |-> FALSE]
    ELSE LET domains == record_file.domain[1]
         IN IF Len(domains) # 1 THEN [ok |-> FALSE]
            ELSE LET domain == FQDNName_new(domains[1])
                 IN IF ~domain.ok THEN [ok |-> FALSE]
                    ELSE LET tld == FQDNName_tld(domain.name)
                             name_servers == ExtractedNameServerInfo_try_from(record_file)
                         IN IF tld = None \/ ~name_servers.ok THEN [ok |-> FALSE]
                            ELSE [ok |-> TRUE,
                                  info |-> [domain |-> domain.name,
                                            tld |-> tld[1],
                                            name_servers |-> name_servers.name_servers,
                                            ds_rdata |->
                                                IF record_file.ds_rdata = None THEN << >>
                                                ELSE record_file.ds_rdata[1]]]

\* str::ends_with
ends_with(s, suffix) ==
    /\ Len(s) >= Len(suffix)
    /\ SubSeq(s, Len(s) - Len(suffix) + 1, Len(s)) = suffix

RegistrySyncDn42 ==
    << "r","e","g","i","s","t","r","y","-","s","y","n","c",".","d","n","4","2" >>

is_registry_sync_domain(domain) ==
    ends_with(domain, RegistrySyncDn42) /\ domain # RegistrySyncDn42

\* char::to_digit(radix), both letter cases
to_digit(c, radix) ==
    LET lower == char_to_lowercase(c)
        digits == { d \in 0..(radix - 1) : HexChars[d + 1] = lower }
    IN IF digits = {} THEN None ELSE Some(CHOOSE d \in digits : TRUE)

\* the digits of s from the left, acc the value read so far: None on a
\* character that is no digit or on a value above 255
RECURSIVE parse_digits(_, _, _)
parse_digits(s, radix, acc) ==
    IF s = << >> THEN Some(acc)
    ELSE LET d == to_digit(s[1], radix)
         IN IF d = None \/ acc * radix + d[1] > 255 THEN None
            ELSE parse_digits(Tail(s), radix, acc * radix + d[1])

\* u8::from_str_radix (str::parse::<u8> is radix 10): an optional "+" sign,
\* then at least one digit
u8_from_str_radix(s, radix) ==
    LET unsigned == IF s # << >> /\ s[1] = "+" THEN Tail(s) ELSE s
    IN IF unsigned = << >> THEN None ELSE parse_digits(unsigned, radix, 0)

\* labels.iter().take(n).rev().map(parse).collect::<Result<Vec<u8>, _>>()
parse_reversed(labels, n, radix) ==
    LET taken == Reverse(SubSeq(labels, 1, Min(n, Len(labels))))
        parsed == [i \in DOMAIN taken |-> u8_from_str_radix(taken[i], radix)]
    IN IF \E i \in DOMAIN parsed : parsed[i] = None THEN None
       ELSE Some([i \in DOMAIN parsed |-> parsed[i][1]])

extract_ipv4_from_labels(labels) ==
    IF Len(labels) # 7 THEN None
    ELSE LET octets_result == parse_reversed(labels, 4, 10)
         IN IF octets_result = None THEN None
            ELSE LET octets == octets_result[1]
                 IN IF Len(octets) # 4 THEN None
                    ELSE Some(V4(octets[1], octets[2], octets[3], octets[4]))

\* a | b on unsigned integers
RECURSIVE BitOr(_, _)
BitOr(a, b) ==
    IF a = 0 THEN b
    ELSE IF b = 0 THEN a
    ELSE 2 * BitOr(a \div 2, b \div 2) + (IF a % 2 = 1 \/ b % 2 = 1 THEN 1 ELSE 0)

\* ((c[0] as u16) << 12) | ((c[1] as u16) << 8) | ((c[2] as u16) << 4) | (c[3] as u16):
\* bits shifted beyond the 16th are lost
segment(c) ==
    BitOr(BitOr((c[1] * 4096) % 65536, (c[2] * 256) % 65536),
          BitOr((c[3] * 16) % 65536, c[4]))

extract_ipv6_from_labels(labels) ==
    IF Len(labels) # 35 THEN None
    ELSE LET nibbles_result == parse_reversed(labels, 32, 16)
         IN IF nibbles_result = None THEN None
            ELSE LET nibbles == nibbles_result[1]
                 IN IF Len(nibbles) # 32 THEN None
                    ELSE Some(V6([k \in 1..8 |->
                                     segment(SubSeq(nibbles, 4 * k - 3, 4 * k))]))

Ipv4Label == << "i","p","v","4" >>
Ipv6Label == << "i","p","v","6" >>

\* Result<IpAddr, String> as an Option
extract_ip_from_registry_sync_domain(domain) ==
    LET labels == split(domain, ".")
    IN IF Len(labels) < 4 THEN None
       ELSE LET ip_version_label == labels[Len(labels) - 2]
            IN IF ip_version_label = Ipv4Label THEN extract_ipv4_from_labels(labels)
               ELSE IF ip_version_label = Ipv6Label THEN extract_ipv6_from_labels(labels)
               ELSE None

\* the for loop over extracted_info.name_servers, lines 240-264
RECURSIVE registry_sync_records_of(_)
registry_sync_records_of(name_servers) ==
    IF name_servers = << >> THEN << >>
    ELSE LET registry_sync_domain == name_servers[1].name_server
             resolved_ip == extract_ip_from_registry_sync_domain(registry_sync_domain)
         IN (IF is_registry_sync_domain(registry_sync_domain) /\ resolved_ip # None
             THEN << DNSRecord(registry_sync_domain, DEFAULT_TTL,
                               AddressData(resolved_ip[1])) >>
             ELSE << >>)
            \o registry_sync_records_of(Tail(name_servers))

RECURSIVE generate_registry_sync_records(_)
generate_registry_sync_records(files) ==
    IF files = << >> THEN << >>
    ELSE LET extracted_info == ExtractedDomainInfo_try_from(files[1])
         IN (IF extracted_info.ok
             THEN registry_sync_records_of(extracted_info.info.name_servers)
             ELSE << >>)
            \o generate_registry_sync_records(Tail(files))

\* the for loop over extracted_info.name_servers, lines 291-313
\* variant: no glue record is emitted
RECURSIVE add_name_servers_without_glue(_, _, _)
add_name_servers_without_glue(z, domain, name_servers) ==
    IF name_servers = << >> THEN z
    ELSE add_name_servers_without_glue(
             add_record(z, DNSRecord(domain, DEFAULT_TTL,
                                     NS(name_servers[1].name_server))).zone,
             domain, Tail(name_servers))

RECURSIVE add_name_servers(_, _, _)
add_name_servers(z, domain, name_servers) ==
    IF name_servers = << >> THEN z
    ELSE LET name_server == name_servers[1]
             with_ns == add_record(z, DNSRecord(domain, DEFAULT_TTL,
                                                NS(name_server.name_server))).zone
             with_glue ==
                 IF name_server.name_server_ip # None
                 THEN add_record(with_ns,
                                 DNSRecord(name_server.name_server, DEFAULT_TTL,
                                           AddressData(name_server.name_server_ip[1]))).zone
                 ELSE with_ns
         IN add_name_servers(with_glue, domain, Tail(name_servers))

\* the for loop over extracted_info.ds_rdata, lines 315-329
\* variant: the comparison with the origin is left out
RECURSIVE add_ds_records_unguarded(_, _, _)
add_ds_records_unguarded(z, domain, ds_rdata) ==
    IF ds_rdata = << >> THEN z
    ELSE add_ds_records_unguarded(
             add_record(z, DNSRecord(domain, DEFAULT_TTL, DS(ds_rdata[1]))).zone,
             domain, Tail(ds_rdata))

RECURSIVE add_ds_records(_, _, _)
add_ds_records(z, domain, ds_rdata) ==
    IF ds_rdata = << >> THEN z
    ELSE LET record == DNSRecord(domain, DEFAULT_TTL, DS(ds_rdata[1]))
         IN add_ds_records(IF z.origin # domain THEN add_record(z, record).zone ELSE z,
                           domain, Tail(ds_rdata))

-----------------------------------------------------------------------------
(* get_parsed_ns_records on bounded inputs                                  *)

ExampleDn42 == << "e","x","a","m","p","l","e",".","d","n","4","2" >>
ExampleDn42Dot == << "E","x","a","m","p","l","e",".","d","n","4","2","." >>
BarDn42 == << "b","a","r",".","d","n","4","2" >>
FooHack == << "f","o","o",".","h","a","c","k" >>
Dn42Dot == << "d","n","4","2","." >>
NsExample == << "n","s","1",".","e","x","a","m","p","l","e",".","d","n","4","2" >>
NsHack == << "n","s","1",".","f","o","o",".","h","a","c","k" >>
Sync4 == << "4",".","3",".","2",".","1",".","i","p","v","4",".","r","e","g","i","s","t","r","y","-","s","y","n","c",".","d","n","4","2" >>
Sync4Big == << "1",".","0",".","0",".","2","5","6",".","i","p","v","4",".","r","e","g","i","s","t","r","y","-","s","y","n","c",".","d","n","4","2" >>
Sync4Near == << "1",".","0",".","0",".","1","0",".","i","p","v","4",".","x","r","e","g","i","s","t","r","y","-","s","y","n","c",".","d","n","4","2" >>
Sync6 ==
    join([i \in 1..32 |-> IF i = 1 THEN << "1" >>
                          ELSE IF i = 29 THEN << "F","F" >>
                          ELSE IF i = 31 THEN << "d" >>
                          ELSE IF i = 32 THEN << "f" >>
                          ELSE << "0" >>]
         \o << Ipv6Label, << "r","e","g","i","s","t","r","y","-","s","y","n","c" >>, Dn42 >>,
         ".")

Ns(name) == NsValue(Some(name), None)
NsIp(name, ip) == NsValue(Some(name), Some(Some(ip)))

DomainFilePool ==
    { DomainFile(Some(<< ExampleDn42 >>),
                 Some(<< NsIp(NsExample, V4(172, 20, 0, 53)), NsIp(NsExample, Ula6(53)) >>),
                 Some(<< DsRdata1, DsRdata2 >>)),
      DomainFile(Some(<< ExampleDn42Dot >>), Some(<< Ns(NsName2), Ns(RegistrySyncDn42) >>),
                 Some(<< DsRdata1 >>)),
      DomainFile(Some(<< Dn42 >>), Some(<< Ns(NsName2) >>), Some(<< DsRdata1 >>)),
      DomainFile(Some(<< Dn42Dot >>), WithGlue4, Some(<< DsRdata2 >>)),
      DomainFile(Some(<< BarDn42 >>),
                 Some(<< NsIp(NsHack, V4(10, 0, 0, 1)), Ns(Sync4Near) >>), None),
      DomainFile(Some(<< FooHack >>), Some(<< Ns(Sync4), NsIp(NsHack, Doc6(1)) >>), None),
      DomainFile(Some(<< FooHack >>), Some(<< Ns(Sync4Big), Ns(Sync6) >>),
                 Some(<< DsRdata1 >>)),
      DomainFile(Some(<< ExampleDn42, BarDn42 >>), WithGlue4, None),
      DomainFile(Some(<< BarDn42 >>), Some(<< NsValue(Some(NsExample), Some(None)) >>),
                 None) }

\* lines 271-277
FwdInit ==
    /\ ReverseIdle
    /\ UpdaterIdle
    /\ dns_records \in SeqsUpTo(DomainFilePool, MaxDomainFiles)
    /\ fwd_idx = 0
    /\ tld_to_zone = << >>
    /\ fwd_serial \in Now
    /\ fwd_pc = "loop"

\* one iteration of the loop of lines 279-330
FwdLoopStep ==
    /\ fwd_pc = "loop"
    /\ fwd_idx < Len(dns_records)
    /\ fwd_idx' = fwd_idx + 1
    /\ LET extracted_info == ExtractedDomainInfo_try_from(dns_records[fwd_idx + 1])
       IN IF ~extracted_info.ok THEN UNCHANGED tld_to_zone
          ELSE LET info == extracted_info.info
                   entry == IF info.tld \in DOMAIN tld_to_zone THEN tld_to_zone[info.tld]
                            ELSE new_zone(info.tld, dns_primary_master,
                                          dns_responsible_person, fwd_serial)
                   with_name_servers == add_name_servers(entry, info.domain,
                                                         info.name_servers)
               IN tld_to_zone' =
                      map_insert(tld_to_zone, info.tld,
                                 add_ds_records(with_name_servers, info.domain,
                                                info.ds_rdata))
    /\ UNCHANGED << dns_records, fwd_serial, fwd_pc >>
    /\ UNCHANGED core_vars
    /\ UNCHANGED upd_vars

\* lines 332-344
FwdRegistrySync ==
    /\ fwd_pc = "loop"
    /\ fwd_idx = Len(dns_records)
    /\ LET registry_sync_records == generate_registry_sync_records(dns_records)
       IN tld_to_zone' =
              IF Dn42 \in DOMAIN tld_to_zone
              THEN map_insert(tld_to_zone, Dn42,
                              add_records(tld_to_zone[Dn42], registry_sync_records))
              ELSE tld_to_zone
    /\ fwd_pc' = "sync"
    /\ UNCHANGED << dns_records, fwd_idx, fwd_serial >>
    /\ UNCHANGED core_vars
    /\ UNCHANGED upd_vars

\* lines 346-348: the zones of the map are returned
FwdReturn ==
    /\ fwd_pc = "sync"
    /\ fwd_pc' = "done"
    /\ UNCHANGED << dns_records, fwd_idx, tld_to_zone, fwd_serial >>
    /\ UNCHANGED core_vars
    /\ UNCHANGED upd_vars

FwdNext ==
    \/ FwdLoopStep
    \/ FwdRegistrySync
    \/ FwdReturn

SpecFwd == FwdInit /\ [][FwdNext]_vars

-----------------------------------------------------------------------------
(* Properties of get_parsed_ns_records                                      *)

FwdReturned == fwd_pc = "done"

\* the Vec<DNSZone> returned, as a set
ReturnedZones == { tld_to_zone[k] : k \in DOMAIN tld_to_zone }

\* the domain objects of the input that were extracted
ExtractedDomains ==
    { ExtractedDomainInfo_try_from(dns_records[i]).info :
        i \in { j \in DOMAIN dns_records :
                  ExtractedDomainInfo_try_from(dns_records[j]).ok } }

\* the name servers of a domain object that carry an inline address
WithInlineAddress(info) ==
    { info.name_servers[k] :
        k \in { j \in DOMAIN info.name_servers :
                  info.name_servers[j].name_server_ip # None } }

\* z holds an A (IPv4) or AAAA (IPv6) record named `name` with address `ip`
HoldsAddress(z, name, ip) ==
    \E rec \in z.records :
        /\ rec.name = name
        /\ rec.data.type = (IF ip.v = 4 THEN "A" ELSE "AAAA")
        /\ rec.data.addr = ip.octets

\* the returned zone of the TLD of `info` holds glue for `ns`
GlueReturned(info, ns) ==
    \E z \in ReturnedZones :
        /\ z.origin = info.tld
        /\ HoldsAddress(z, ns.name_server, ns.name_server_ip[1])

\* C11 as stated: for every extracted domain object and every nserver entry
\* with an inline address, the returned zone of the domain's TLD holds an A or
\* AAAA record named by the name server with that address, whatever the name
\* server's FQDN
C11_GlueForEveryNameServer ==
    FwdReturned =>
        \A info \in ExtractedDomains :
            \A ns \in WithInlineAddress(info) : GlueReturned(info, ns)

\* C11 amended: the same for every name server whose FQDN is the origin of
\* the TLD zone or a child of it
C11_GlueForNameServersInZone ==
    FwdReturned =>
        \A info \in ExtractedDomains :
            \A ns \in WithInlineAddress(info) :
                WithinOrigin(ns.name_server, info.tld) => GlueReturned(info, ns)

\* a call returned a zone holding both an A and an AAAA glue record of a name
\* server inside the zone, and another inline address was outside its zone
C11_Witness ==
    /\ FwdReturned
    /\ \E info \in ExtractedDomains :
           \E ns4, ns6 \in WithInlineAddress(info) :
               /\ ns4.name_server_ip[1].v = 4
               /\ ns6.name_server_ip[1].v = 6
               /\ WithinOrigin(ns4.name_server, info.tld)
               /\ WithinOrigin(ns6.name_server, info.tld)
               /\ GlueReturned(info, ns4)
               /\ GlueReturned(info, ns6)
    /\ \E info \in ExtractedDomains :
           \E ns \in WithInlineAddress(info) : ~WithinOrigin(ns.name_server, info.tld)

\* name denotes the origin of z, written with or without the root dot
DenotesApex(name, z) == WithoutRootDot(name) = WithoutRootDot(z.origin)

IsDS(rec) == rec.data.type = "DS"

\* the ds-rdata strings of a domain object
DsStrings(info) == { info.ds_rdata[k] : k \in DOMAIN info.ds_rdata }

\* C12: no returned forward zone holds a DS record whose owner name denotes
\* the zone's own origin, so a ds-rdata on the apex domain (written with or
\* without a trailing dot) is dropped; every other domain object has, in the
\* zone of its TLD, one DS record named by the domain per ds-rdata string; and
\* the zones hold no other DS records
C12_NoDsAtApex ==
    FwdReturned =>
        /\ \A z \in ReturnedZones :
               \A rec \in z.records : IsDS(rec) => ~DenotesApex(rec.name, z)
        /\ \A info \in ExtractedDomains :
               \E z \in ReturnedZones :
                   /\ z.origin = info.tld
                   /\ ~DenotesApex(info.domain, z) =>
                          \A ds \in DsStrings(info) :
                              \E rec \in z.records :
                                  /\ IsDS(rec)
                                  /\ rec.name = info.domain
                                  /\ rec.data.text = ds
        /\ \A z \in ReturnedZones :
               \A rec \in z.records :
                   IsDS(rec) => \E info \in ExtractedDomains :
                                    rec.name = info.domain /\ rec.data.text \in DsStrings(info)

\* a ds-rdata of the apex domain was dropped from a zone that holds the DS
\* records of another domain
C12_Witness ==
    /\ FwdReturned
    /\ \E apex, other \in ExtractedDomains :
           /\ apex.tld = other.tld
           /\ DenotesApex(apex.domain, tld_to_zone[apex.tld])
           /\ apex.ds_rdata # << >>
           /\ ~DenotesApex(other.domain, tld_to_zone[other.tld])
           /\ Len(other.ds_rdata) >= 2
           /\ \E rec \in tld_to_zone[other.tld].records : IsDS(rec)

\* the dropped ds-rdata was on an apex domain written with the root dot
C12_WitnessRootDot ==
    /\ C12_Witness
    /\ \E apex \in ExtractedDomains :
           /\ apex.domain # apex.tld
           /\ DenotesApex(apex.domain, tld_to_zone[apex.tld])
           /\ apex.ds_rdata # << >>

\* the decimal texts of the octets 0..255
IsOctetLabel(label) == \E n \in 0..255 : to_string(n) = label
OctetOf(label) == CHOOSE n \in 0..255 : to_string(n) = label

RegistrySyncLabel == << "r","e","g","i","s","t","r","y","-","s","y","n","c" >>

\* name has the form A.B.C.D.ipv4.registry-sync.dn42 with decimal octet labels
IsIpv4SyncName(name) ==
    LET labels == split(name, ".")
    IN /\ Len(labels) = 7
       /\ \A i \in 1..4 : IsOctetLabel(labels[i])
       /\ labels[5] = Ipv4Label
       /\ labels[6] = RegistrySyncLabel
       /\ labels[7] = Dn42

\* the address D.C.B.A of the name A.B.C.D.ipv4.registry-sync.dn42
Ipv4SyncAddress(name) ==
    LET labels == split(name, ".")
    IN V4(OctetOf(labels[4]), OctetOf(labels[3]), OctetOf(labels[2]), OctetOf(labels[1]))

\* the name servers of the extracted domain objects with a name of that form
Ipv4SyncNames ==
    UNION { { info.name_servers[k].name_server :
                k \in { j \in DOMAIN info.name_servers :
                          IsIpv4SyncName(info.name_servers[j].name_server) } } :
            info \in ExtractedDomains }

\* some returned zone has origin dn42 and holds the A record of `name`
SyncAddressReturned(name) ==
    \E z \in ReturnedZones :
        z.origin = Dn42 /\ HoldsAddress(z, name, Ipv4SyncAddress(name))

\* C13: for every domain object, of any TLD, with an nserver of the form
\* A.B.C.D.ipv4.registry-sync.dn42, the output holds a zone with origin dn42
\* that holds an A record named by that FQDN with address D.C.B.A
C13_SyncAddressInDn42Zone ==
    FwdReturned => \A name \in Ipv4SyncNames : SyncAddressReturned(name)

\* the same, when a domain object of TLD dn42 was extracted
SyncAddressWhenDn42Extracted ==
    (FwdReturned /\ \E info \in ExtractedDomains : info.tld = Dn42)
        => \A name \in Ipv4SyncNames : SyncAddressReturned(name)

\* a domain object of another TLD named a registry-sync server and the dn42
\* zone returned holds the A record 4.3.2.1.ipv4.registry-sync.dn42 -> 1.2.3.4
C13_Witness ==
    /\ FwdReturned
    /\ \E info \in ExtractedDomains :
           /\ info.tld # Dn42
           /\ \E k \in DOMAIN info.name_servers :
                  /\ info.name_servers[k].name_server = Sync4
                  /\ IsIpv4SyncName(Sync4)
                  /\ Ipv4SyncAddress(Sync4) = V4(1, 2, 3, 4)
                  /\ SyncAddressReturned(Sync4)

\* name ends in ".registry-sync.dn42": its last two labels are registry-sync
\* and dn42 and at least one label precedes them
EndsInRegistrySync(name) ==
    LET labels == split(name, ".")
        n == Len(labels)
    IN n >= 3 /\ labels[n - 1] = RegistrySyncLabel /\ labels[n] = Dn42

\* the name servers of the extracted domain objects
AllNameServers ==
    UNION { { info.name_servers[k].name_server : k \in DOMAIN info.name_servers } :
            info \in ExtractedDomains }

\* name was treated as a registry-sync name: an address record named by it
\* was synthesized from its labels
Recognized(name) ==
    \E rec \in Range(generate_registry_sync_records(dns_records)) : rec.name = name

\* C14: a name server is recognized as a registry-sync name if and only if it
\* ends in ".registry-sync.dn42"; the bare name registry-sync.dn42 and names
\* whose second-to-last label only has registry-sync as a suffix are not
C14_RecognizedIffEndsInRegistrySync ==
    FwdReturned =>
        \A name \in AllNameServers :
            /\ is_registry_sync_domain(name) <=> EndsInRegistrySync(name)
            /\ Recognized(name) => EndsInRegistrySync(name)

\* every name ending in ".registry-sync.dn42" is recognized
RecognizedWhenEndsInRegistrySync ==
    \A name \in AllNameServers : EndsInRegistrySync(name) => is_registry_sync_domain(name)

\* the dn42 zone returned holds an address record synthesized from a name
\* whose second-to-last label is xregistry-sync
C14_Witness ==
    /\ FwdReturned
    /\ Sync4Near \in AllNameServers
    /\ ~EndsInRegistrySync(Sync4Near)
    /\ Dn42 \in DOMAIN tld_to_zone
    /\ HoldsAddress(tld_to_zone[Dn42], Sync4Near, V4(10, 0, 0, 1))

-----------------------------------------------------------------------------
(* ROA synthesizer and snapshots                                            *)
(* (src/src/parser/route.rs, src/src/model/output.rs, src/src/lib.rs)       *)

\* a route object after the line parser.  A route value is the prefix as
\* written (None when it does not parse), an origin value the number after
\* "AS" (None when there is none), a max-length value its u8 (None when it
\* does not parse)
RouteFile(origin, route, route6, max_length) ==
    [origin |-> origin, route |-> route, route6 |-> route6, max_length |-> max_length]

ROA(asn, prefix, max_length) == [asn |-> asn, prefix |-> prefix, max_length |-> max_length]

\* the loop of lines 47-62
RECURSIVE roas_of_origins(_, _, _)
roas_of_origins(asn_strs, route_str, max_length) ==
    IF asn_strs = << >> THEN << >>
    ELSE (IF asn_strs[1] # None THEN << ROA(asn_strs[1][1], route_str, max_length) >>
          ELSE << >>)
         \o roas_of_origins(Tail(asn_strs), route_str, max_length)

\* one iteration of the loop of lines 8-69: the ROA entries of one record file
roas_of_file(record_file) ==
    LET asn_strs == record_file.origin
        route_strs == IF record_file.route # None THEN record_file.route
                      ELSE record_file.route6
        max_length_strs == record_file.max_length
    IN IF asn_strs = None \/ route_strs = None THEN << >>
       ELSE IF Len(route_strs[1]) # 1 THEN << >>
       ELSE LET route_str == route_strs[1][1]
                prefix == IF route_str = None THEN [ok |-> FALSE]
                          ELSE Prefix_from_str(route_str[1].network,
                    route_str[1].prefix_len)
            IN IF ~prefix.ok THEN << >>
               ELSE IF max_length_strs = None
                    THEN roas_of_origins(asn_strs[1], route_str[1],
                                         prefix.prefix.prefix_len)
               ELSE IF Len(max_length_strs[1]) # 1 \/ max_length_strs[1][1] = None
                    THEN << >>
               ELSE roas_of_origins(asn_strs[1], route_str[1], max_length_strs[1][1][1])

RECURSIVE roas_of_files(_)
roas_of_files(files) ==
    IF files = << >> THEN << >>
    ELSE roas_of_file(files[1]) \o roas_of_files(Tail(files))

\* Metadata; build_time is the time of the call
Metadata(build_time, counts, roas) ==
    [build_time |-> build_time, counts |-> counts, roas |-> roas]

\* Metadata::default(): build_time is the empty string
Metadata_default == Metadata(<< >>, 0, 0)

\* variant: a default output that holds one ROA
RpkiClientOutput_with_entry ==
    [metadata |-> Metadata(<< >>, 1, 1), roas |-> << ROA(64511, << >>, 24) >>]

RpkiClientOutput_default == [metadata |-> Metadata_default, roas |-> << >>]

\* get_parsed_roa_routes; build_time is chrono::Utc::now() (line 74), which
\* panics on a system clock before the Unix epoch.  The time written is the
\* time of the call, counted in cycles as last_updated is
get_parsed_roa_routes(files, reading, now) ==
    LET roas == roas_of_files(files)
    IN IF ~reading.ok THEN [panic |-> TRUE]
       ELSE [panic |-> FALSE,
             output |-> [metadata |-> Metadata(<< now >>, Len(roas), Len(roas)),
                         roas |-> roas]]

\* String::new()
String_new == << >>

\* serde_json::to_string_pretty on RpkiClientOutput: a text holding one JSON
\* document, with the member names the Serialize derive gives
to_string_pretty(output) ==
    << [metadata |-> [buildtime |-> output.metadata.build_time,
                      counts |-> output.metadata.counts,
                      roas |-> output.metadata.roas],
        roas |-> [i \in DOMAIN output.roas |->
                     [asn |-> output.roas[i].asn,
                      prefix |-> output.roas[i].prefix,
                      maxLength |-> output.roas[i].max_length]]] >>

\* ROACache::default()
ROACache_default(now) == [json_content |-> String_new, last_updated |-> now]

\* the DNS snapshot before the first run: an empty content map
DNSCache_default(now) == [content |-> << >>, last_updated |-> now]

\* ensure_fqdn (src/src/formatter/dns_zone.rs): "@" becomes ".", and the
\* name ends in a dot
ensure_fqdn(name) ==
    LET replaced == [i \in DOMAIN name |-> IF name[i] = "@" THEN "." ELSE name[i]]
    IN IF replaced # << >> /\ replaced[Len(replaced)] = "." THEN replaced
       ELSE replaced \o << "." >>

\* format_dns_zone: the zone file, kept as its $ORIGIN line, its SOA block
\* and the set of its record lines
format_dns_zone(z) ==
    [origin_line |-> ensure_fqdn(z.origin), soa_block |-> z.soa, record_lines |-> z.records]

\* dns_zones ... .map(|zone| (zone.origin().to_string(), format_dns_zone(&zone))).collect()
zone_name_to_content(dns_zones) ==
    [origin \in { z.origin : z \in dns_zones } |->
        format_dns_zone(CHOOSE z \in dns_zones : z.origin = origin)]

\* std::sync::RwLock<T>
RwLock(value) == [writer |-> FALSE, readers |-> 0, poisoned |-> FALSE, value |-> value]

\* RwLock::read returns: no writer holds the lock
\* variant: a read guard is handed out whatever the writer does
can_read_unlocked(lock) == TRUE

can_read(lock) == ~lock.writer

\* RwLock::write returns: nobody holds the lock
can_write(lock) == ~lock.writer /\ lock.readers = 0

\* the registry checkout on the disk: whether git_repo_local_path exists, and
\* its five record directories.  A directory is missing (None) or holds
\* entries, each with its file name; an entry is a regular file, of which
\* content is the record the line parser makes of it (None: a file that
\* cannot be read), or something else, here a subdirectory
Checkout(exists, route, route6, dns, inetnum, inet6num) ==
    [exists |-> exists, route |-> route, route6 |-> route6, dns |-> dns,
     inetnum |-> inetnum, inet6num |-> inet6num]

NoDirectory == None
Directory(entries) == Some(entries)

File(name, content) == [name |-> name, is_file |-> TRUE, content |-> content]
Subdirectory(name) == [name |-> name, is_file |-> FALSE, content |-> None]

\* the entries of a record directory of the checkout, none when the root or
\* the directory is not there
EntriesOf(checkout, dir) ==
    IF checkout.exists /\ checkout[dir] # NoDirectory
    THEN Range(checkout[dir][1])
    ELSE {}

\* fs::read_dir(&dir) and the entries its iterator yields (io.rs 17-19): an
\* error when the root or the directory is not there, else entry.path() of
\* every entry, the directory joined with the file name
read_dir(checkout, dir) ==
    IF ~checkout.exists \/ checkout[dir] = NoDirectory
    THEN [ok |-> FALSE]
    ELSE [ok |-> TRUE,
          entries |-> { << dir, entry.name >> : entry \in EntriesOf(checkout, dir) }]

\* the orders in which read_dir can yield the entries: the platform fixes none
Orderings(entries) ==
    { order \in [1..Cardinality(entries) -> entries] :
        \A i, j \in DOMAIN order : i # j => order[i] # order[j] }

\* path.is_file() (io.rs 21): the path names a regular file as the disk is
\* now; a path that is gone, or that is a directory, answers false
is_file(checkout, path) ==
    \E entry \in EntriesOf(checkout, path[1]) :
        entry.name = path[2] /\ entry.is_file

\* RecordFile::new(path) on a checkout (io.rs 30-34): an error when no file
\* of that name is there or it cannot be read, else its record
RecordFile_new(checkout, path) ==
    LET read == { entry \in EntriesOf(checkout, path[1]) :
                    /\ entry.name = path[2]
                    /\ entry.is_file
                    /\ entry.content # None }
    IN IF read = {}
       THEN [ok |-> FALSE]
       ELSE [ok |-> TRUE, record_file |-> (CHOOSE entry \in read : TRUE).content[1]]

-----------------------------------------------------------------------------
(* Periodic driver, generation tasks and request handlers                   *)
(* (src/src/io.rs, src/src/task/roa.rs, src/src/task/dns.rs, src/src/main.rs) *)

MaxCycles == 2

\* task/roa.rs 30-33 and task/dns.rs 30-37: the directories of the three
\* get_records_from_dirs calls, in the order they are handed over
route_directories == << "route", "route6" >>
dns_directories == << "dns" >>
inetnum_directories == << "inetnum", "inet6num" >>

\* the contents of the regular files of a directory, in the order written
RECURSIVE ContentsOf(_)
ContentsOf(entries) ==
    IF entries = << >> THEN << >>
    ELSE (IF Head(entries).is_file THEN << Head(entries).content >> ELSE << >>)
            \o ContentsOf(Tail(entries))

\* the files of a checkout in the directories of one call
RECURSIVE FilesIn(_, _)
FilesIn(checkout, dirs) ==
    IF dirs = << >> THEN << >>
    ELSE (IF checkout[Head(dirs)] = NoDirectory THEN << >>
          ELSE ContentsOf(checkout[Head(dirs)][1]))
            \o FilesIn(checkout, Tail(dirs))

GoodRoute ==
    RouteFile(Some(<< Some(64511) >>),
              Some(<< Some(CidrValue(V4(172, 20, 0, 0), 24)) >>), None,
              Some(<< Some(28) >>))
BadRoute ==
    RouteFile(Some(<< None >>), None, Some(<< Some(CidrValue(Ula6(0), 48)) >>), None)
GoodDomain == DomainFile(Some(<< BarDn42 >>), Some(<< Ns(NsName2) >>), None)
BadDomain == DomainFile(None, Some(<< Ns(NsName2) >>), None)
GoodInetnum == RecordFile(Some(<< CidrValue(V4(10, 0, 0, 0), 24) >>), WithoutGlue, None)
BadInetnum == RecordFile(None, WithoutGlue, None)
RootInetnum == RecordFile(Some(<< CidrValue(V4(0, 0, 0, 0), 0) >>), WithoutGlue, None)

GoodInetnum6 == RecordFile(Some(<< CidrValue(Doc6(0), 32) >>), WithoutGlue, None)

\* the different checkouts that are written to the disk in one run: the disk
\* holds no checkout or one of them, and turns from one to another at any
\* moment
MaxCheckouts == 1

\* how often the git children left running change the disk in one run
MaxGitWrites == 1

NoCheckout ==
    Checkout(FALSE, NoDirectory, NoDirectory, NoDirectory, NoDirectory, NoDirectory)

\* no checkout; a checkout with a record that fails extraction beside the
\* good ones; one with an unreadable file in the route and dns directories;
\* one without a route directory, with a subdirectory in the dns directory,
\* whose only inetnum object is 0.0.0.0/0
Registries ==
    { NoCheckout,
      Checkout(TRUE,
               Directory(<< File("172.20.0.0_24", Some(GoodRoute)) >>),
               Directory(<< File("fd00::_48", Some(BadRoute)) >>),
               Directory(<< File("foo.dn42", Some(BadDomain)),
                            File("bar.dn42", Some(GoodDomain)) >>),
               Directory(<< File("10.0.0.0_8", Some(BadInetnum)) >>),
               Directory(<< File("2001:db8::_32", Some(GoodInetnum6)) >>)),
      Checkout(TRUE,
               Directory(<< File("172.20.0.0_24", Some(GoodRoute)),
                            File("172.21.0.0_24", None) >>),
               Directory(<< >>),
               Directory(<< File("baz.dn42", None),
                            File("bar.dn42", Some(GoodDomain)) >>),
               Directory(<< File("10.0.0.0_24", Some(GoodInetnum)) >>),
               Directory(<< >>)),
      Checkout(TRUE,
               NoDirectory,
               Directory(<< >>),
               Directory(<< Subdirectory("old") >>),
               Directory(<< File("0.0.0.0_0", Some(RootInetnum)) >>),
               Directory(<< >>)) }

\* variant: every step is recorded as failed
Step_as_error(name, result) == [step |-> name, result |-> "err"]

Step(name, result) == [step |-> name, result |-> result]

\* a handler: its position and the status of its last response
ReaderIdle == [pc |-> "idle", status |-> None]

\* main: AppState::default(), then background_updater is spawned; the time
\* is counted in cycles, construction happens at time 0.  The system clock of
\* a run stays on one side of the Unix epoch
UpdInit ==
    /\ overflow_checks \in BOOLEAN
    /\ ReverseCallIdle
    /\ ForwardIdle
    /\ checkouts \in { written \in SUBSET { r \in Registries : r.exists } :
                        Cardinality(written) = MaxCheckouts }
    /\ registry \in checkouts \cup { NoCheckout }
    /\ git_writes = 0
    /\ cycle = 1
    /\ upd_pc = "sync"
    /\ trace = << >>
    /\ prepared = None
    /\ roa_data = RwLock(ROACache_default(0))
    /\ dns_data = RwLock(DNSCache_default(0))
    /\ published = [roa |-> { ROACache_default(0) }, dns |-> { DNSCache_default(0) }]
    /\ reader = ReaderIdle
    /\ left_running = FALSE
    /\ directories = << >>
    /\ dir_entries = << >>
    /\ record_paths = << >>
    /\ records_read = << >>
    /\ root_found = << >>
    /\ clock \in { { reading \in ClockReadings : reading.ok = side } : side \in BOOLEAN }

\* the variables of the updater other than its position and the disk
snapshot_vars == << roa_data, dns_data, published >>

\* the locals of one get_records_from_dirs call
call_vars == << directories, dir_entries, record_paths, records_read >>

\* the environment: the directory git_repo_local_path is removed from outside
\* the program, at any moment: while the refresh runs, between the exists()
\* of a task and its reads, between two reads, between the two tasks
RegistryRemoved ==
    /\ registry.exists
    /\ registry' = NoCheckout
    /\ UNCHANGED << cycle, upd_pc, trace, prepared, reader, left_running, checkouts,
                    git_writes,
                    clock, root_found >>
    /\ UNCHANGED << snapshot_vars, call_vars, core_vars, fwd_vars >>

\* io.rs 67, 118-131 and 89-95: sync_git_repository starts git clone (no
\* checkout) or git pull and awaits it, the handlers running meanwhile; when
\* the command cannot be spawned the refresh has failed, which is logged
UpdSync ==
    /\ upd_pc = "sync"
    /\ \E spawned \in BOOLEAN :
         IF spawned
         THEN /\ upd_pc' = "syncing"
              /\ UNCHANGED trace
         ELSE /\ upd_pc' = "roa"
              /\ trace' = Append(trace, Step("refresh", "err"))
    /\ UNCHANGED << registry, cycle, prepared, reader, left_running, checkouts,
                    git_writes, clock,
                    root_found >>
    /\ UNCHANGED << snapshot_vars, call_vars, core_vars, fwd_vars >>

\* io.rs 97-115 and 67-71: run_command_echo_output returns.  Either the output
\* of git was echoed to its end and child.wait() returned: git has ended, and
\* its exit status is not looked at, so the refresh is Ok whether git left a
\* checkout on disk or failed and left what was there (as does a disabled
\* pull).  Or reading a line failed (105; a line that is not UTF-8) or the wait
\* failed (112-113): Err is returned at once and the child is dropped, which
\* does not end it (no kill_on_drop)
UpdSyncDone ==
    /\ upd_pc = "syncing"
    /\ \/ /\ trace' = Append(trace, Step("refresh", "ok"))
          /\ registry' \in { registry } \cup checkouts
          /\ UNCHANGED left_running
       \/ /\ trace' = Append(trace, Step("refresh", "err"))
          /\ left_running' = TRUE
          /\ UNCHANGED registry
    /\ upd_pc' = "roa"
    /\ UNCHANGED << cycle, prepared, reader, checkouts, git_writes, clock, root_found >>
    /\ UNCHANGED << snapshot_vars, call_vars, core_vars, fwd_vars >>

\* io.rs 92-95: the command is spawned without kill_on_drop, so a git child
\* that was dropped goes on beside the updater and the handlers, in this cycle
\* and in later ones; nothing in the program learns when it ends.  It writes
\* the checkout at any moment, also between two reads of a task, and a clone
\* that fails removes the directory it made.  A task reads the disk one
\* directory listing and one file at a time, so a checkout written half is
\* what a task sees whose reads lie on both sides of this step
GitGoesOn ==
    /\ left_running
    /\ git_writes < MaxGitWrites
    /\ git_writes' = git_writes + 1
    /\ registry' \in (checkouts \cup { NoCheckout }) \ { registry }
    /\ UNCHANGED << cycle, upd_pc, trace, prepared, reader, left_running, checkouts,
                    clock, root_found >>
    /\ UNCHANGED << snapshot_vars, call_vars, core_vars, fwd_vars >>

\* the task whose get_records_from_dirs call is under way
InCall == upd_pc \in { "roa_records", "dns_records", "inetnum_records" }

\* the `?` on a get_records_from_dirs call (task/roa.rs 35, task/dns.rs 39-40)
\* takes the Err branch: run returns it, and background_updater logs it
\* (io.rs 76-77) and goes on to the next task
TaskReturnsErr ==
    /\ IF upd_pc = "roa_records"
       THEN /\ trace' = Append(trace, Step("roa", "err"))
            /\ upd_pc' = "dns"
       ELSE /\ trace' = Append(trace, Step("dns", "err"))
            /\ upd_pc' = "sleep"
    /\ directories' = << >>
    /\ dir_entries' = << >>
    /\ record_paths' = << >>
    /\ records_read' = << >>
    /\ dns_records' = << >>
    /\ UNCHANGED << fwd_idx, tld_to_zone, fwd_serial, fwd_pc >>

\* task/roa.rs 29-42: Path::exists on the root.  Without a checkout the output
\* is RpkiClientOutput::default(); with one, get_records_from_dirs is entered
\* with the two route directories
RoaExists ==
    /\ upd_pc = "roa"
    /\ root_found' = Append(root_found, registry.exists)
    /\ IF registry.exists
       THEN /\ directories' = route_directories
            /\ upd_pc' = "roa_records"
            /\ UNCHANGED prepared
       ELSE /\ prepared' = Some(RpkiClientOutput_default)
            /\ upd_pc' = "roa_lock"
            /\ UNCHANGED directories
    /\ UNCHANGED << registry, cycle, trace, reader, left_running, checkouts, git_writes,
                    clock,
                    dir_entries, record_paths, records_read >>
    /\ UNCHANGED << snapshot_vars, core_vars, fwd_vars >>

\* io.rs 16-19: discover_record comes to the next directory: read_dir as the
\* disk is now, and the paths of its entries in the order the platform yields
\* them; an error of read_dir ends the task.  Opening the directory and
\* reading its entries are one step: what the disk does between the two shows
\* in the look at each entry that follows
DiscoverRecord ==
    /\ InCall
    /\ dir_entries = << >>
    /\ directories # << >>
    /\ LET listing == read_dir(registry, Head(directories))
       IN IF ~listing.ok
          THEN TaskReturnsErr
          ELSE /\ \E order \in Orderings(listing.entries) : dir_entries' = order
               /\ directories' = Tail(directories)
               /\ UNCHANGED << upd_pc, trace, record_paths, records_read, fwd_vars >>
    /\ UNCHANGED << registry, cycle, prepared, reader, left_running, checkouts,
                    git_writes, clock,
                    root_found >>
    /\ UNCHANGED << snapshot_vars, core_vars >>

\* io.rs 19-23: one entry of the directory being listed: its path is pushed
\* when path.is_file() holds as the disk is now; an entry that is gone by
\* then, or that is no regular file, is passed over without an error
IsFile ==
    /\ InCall
    /\ dir_entries # << >>
    /\ record_paths' = IF is_file(registry, Head(dir_entries))
                       THEN Append(record_paths, Head(dir_entries))
                       ELSE record_paths
    /\ dir_entries' = Tail(dir_entries)
    /\ UNCHANGED << upd_pc, trace, directories, records_read, fwd_vars >>
    /\ UNCHANGED << registry, cycle, prepared, reader, left_running, checkouts,
                    git_writes, clock,
                    root_found >>
    /\ UNCHANGED << snapshot_vars, core_vars >>

\* io.rs 43-46: one iteration of the loop of get_records_from_dirs over the
\* discovered paths: the file of that name is read as the disk is now; a file
\* that is gone or cannot be read ends the task
ParseRecord ==
    /\ InCall
    /\ directories = << >>
    /\ dir_entries = << >>
    /\ record_paths # << >>
    /\ LET record == RecordFile_new(registry, Head(record_paths))
       IN IF ~record.ok
          THEN TaskReturnsErr
          ELSE /\ records_read' = Append(records_read, record.record_file)
               /\ record_paths' = Tail(record_paths)
               /\ UNCHANGED << upd_pc, trace, directories, dir_entries, fwd_vars >>
    /\ UNCHANGED << registry, cycle, prepared, reader, left_running, checkouts,
                    git_writes, clock,
                    root_found >>
    /\ UNCHANGED << snapshot_vars, core_vars >>

\* task/roa.rs 35-37: the call has returned the route records and
\* get_parsed_roa_routes runs on them; its panic unwinds through task.run()
\* and background_updater, and the spawned updater ends
RoaParse ==
    /\ upd_pc = "roa_records"
    /\ directories = << >>
    /\ dir_entries = << >>
    /\ record_paths = << >>
    /\ \E reading \in clock :
         LET parsed == get_parsed_roa_routes(records_read, reading, cycle)
         IN IF parsed.panic
            THEN /\ upd_pc' = "dead"
                 /\ UNCHANGED prepared
            ELSE /\ upd_pc' = "roa_lock"
                 /\ prepared' = Some(parsed.output)
    /\ records_read' = << >>
    /\ UNCHANGED << registry, cycle, trace, reader, left_running, checkouts, git_writes,
                    clock,
                    directories, dir_entries, record_paths, root_found >>
    /\ UNCHANGED << snapshot_vars, core_vars, fwd_vars >>

\* task/roa.rs 44: state.roa_data.write().unwrap()
RoaLock ==
    /\ upd_pc = "roa_lock"
    /\ can_write(roa_data)
    /\ IF roa_data.poisoned
       THEN upd_pc' = "dead" /\ UNCHANGED roa_data
       ELSE upd_pc' = "roa_stamp" /\ roa_data' = [roa_data EXCEPT !.writer = TRUE]
    /\ UNCHANGED << registry, cycle, trace, prepared, dns_data, published, reader,
                    left_running, checkouts, git_writes, clock, root_found >>
    /\ UNCHANGED << call_vars, core_vars, fwd_vars >>

\* task/roa.rs 46: data_lock.last_updated = now
RoaStamp ==
    /\ upd_pc = "roa_stamp"
    /\ roa_data' = [roa_data EXCEPT !.value.last_updated = cycle]
    /\ upd_pc' = "roa_serialize"
    /\ UNCHANGED << registry, cycle, trace, prepared, dns_data, published, reader,
                    left_running, checkouts, git_writes, clock, root_found >>
    /\ UNCHANGED << call_vars, core_vars, fwd_vars >>

\* task/roa.rs 47, right-hand side: serde_json::to_string_pretty(&output)
RoaSerialize ==
    /\ upd_pc = "roa_serialize"
    /\ prepared' = Some(to_string_pretty(prepared[1]))
    /\ upd_pc' = "roa_store"
    /\ UNCHANGED << registry, cycle, trace, reader, left_running, checkouts, git_writes,
                    clock,
                    root_found >>
    /\ UNCHANGED << snapshot_vars, call_vars, core_vars, fwd_vars >>

\* task/roa.rs 47-50: the assignment, Ok(()) and the drop of the guard
RoaStore ==
    /\ upd_pc = "roa_store"
    /\ LET value == [roa_data.value EXCEPT !.json_content = prepared[1]]
       IN /\ roa_data' = [roa_data EXCEPT !.value = value, !.writer = FALSE]
          /\ published' = [published EXCEPT !.roa = @ \cup { value }]
    /\ prepared' = None
    /\ trace' = Append(trace, Step("roa", "ok"))
    /\ upd_pc' = "dns"
    /\ UNCHANGED << registry, cycle, dns_data, reader, left_running, checkouts,
                    git_writes, clock,
                    root_found >>
    /\ UNCHANGED << call_vars, core_vars, fwd_vars >>

\* task/dns.rs 29-50: Path::exists on the root.  Without a checkout dns_zones
\* is Vec::default(); with one, get_records_from_dirs is entered with the dns
\* directory
DnsExists ==
    /\ upd_pc = "dns"
    /\ root_found' = Append(root_found, registry.exists)
    /\ IF registry.exists
       THEN /\ directories' = dns_directories
            /\ upd_pc' = "dns_records"
            /\ UNCHANGED prepared
       ELSE /\ prepared' = Some({})
            /\ upd_pc' = "dns_format"
            /\ UNCHANGED directories
    /\ UNCHANGED << registry, cycle, trace, reader, left_running, checkouts, git_writes,
                    clock,
                    dir_entries, record_paths, records_read >>
    /\ UNCHANGED << snapshot_vars, core_vars, fwd_vars >>

\* task/dns.rs 39-40: the first call has returned the dns records, and
\* get_records_from_dirs is entered with the inetnum and inet6num directories
DnsRecordsRead ==
    /\ upd_pc = "dns_records"
    /\ directories = << >>
    /\ dir_entries = << >>
    /\ record_paths = << >>
    /\ dns_records' = records_read
    /\ records_read' = << >>
    /\ directories' = inetnum_directories
    /\ upd_pc' = "inetnum_records"
    /\ UNCHANGED << fwd_idx, tld_to_zone, fwd_serial, fwd_pc >>
    /\ UNCHANGED << registry, cycle, trace, prepared, reader, left_running, checkouts,
                    git_writes,
                    clock, dir_entries, record_paths, root_found >>
    /\ UNCHANGED << snapshot_vars, core_vars >>

\* task/dns.rs 40-42: the second call has returned the inetnum records, and
\* get_parsed_ns_records is entered with the dns records
InetnumRecordsRead ==
    /\ upd_pc = "inetnum_records"
    /\ directories = << >>
    /\ dir_entries = << >>
    /\ record_paths = << >>
    /\ record_files' = records_read
    /\ records_read' = << >>
    /\ fwd_idx' = 0
    /\ tld_to_zone' = << >>
    /\ fwd_serial' \in Now
    /\ fwd_pc' = "loop"
    /\ upd_pc' = "dns_forward"
    /\ UNCHANGED << overflow_checks, ipv4_tree, ipv6_tree, inserted, rev_in, rev_out,
                    idx, cidr_to_nameservers, cidr_to_ds_rdata, pending, ipv4_zone,
                    ipv6_zone, counter, pc, last_visit, zone, add_result >>
    /\ UNCHANGED << registry, cycle, trace, prepared, reader, left_running, checkouts,
                    git_writes,
                    clock, directories, dir_entries, record_paths, root_found,
                    dns_records >>
    /\ UNCHANGED snapshot_vars

\* task/dns.rs 42-43: get_parsed_ns_records has returned, generate_reverse_zones
\* is entered with the inetnum records
DnsReverse ==
    /\ upd_pc = "dns_forward"
    /\ fwd_pc = "done"
    /\ pc' = "start"
    /\ upd_pc' = "dns_reverse"
    /\ UNCHANGED << overflow_checks, ipv4_tree, ipv6_tree, inserted, rev_in, rev_out,
                    record_files, idx, cidr_to_nameservers, cidr_to_ds_rdata, pending,
                    ipv4_zone, ipv6_zone, counter, last_visit, zone, add_result >>
    /\ UNCHANGED << registry, cycle, trace, prepared, reader, left_running, checkouts,
                    git_writes,
                    clock, root_found >>
    /\ UNCHANGED << snapshot_vars, call_vars, fwd_vars >>

\* task/dns.rs 43-45: generate_reverse_zones has returned; dns_zones.extend(..),
\* and the locals of the two synthesizers and the record vectors are gone
DnsExtend ==
    /\ upd_pc = "dns_reverse"
    /\ pc = "done"
    /\ prepared' = Some({ tld_to_zone[k] : k \in DOMAIN tld_to_zone }
                        \cup { ipv4_zone[1], ipv6_zone[1] })
    /\ upd_pc' = "dns_format"
    /\ ipv4_tree' = PrefixTree_new
    /\ ipv6_tree' = PrefixTree_new
    /\ record_files' = << >>
    /\ idx' = 0
    /\ cidr_to_nameservers' = << >>
    /\ cidr_to_ds_rdata' = << >>
    /\ pending' = << >>
    /\ ipv4_zone' = None
    /\ ipv6_zone' = None
    /\ counter' = ReverseRecordCounter_default
    /\ pc' = "idle"
    /\ last_visit' = None
    /\ dns_records' = << >>
    /\ fwd_idx' = 0
    /\ tld_to_zone' = << >>
    /\ fwd_serial' = 0
    /\ fwd_pc' = "idle"
    /\ UNCHANGED << overflow_checks, inserted, rev_in, rev_out, zone, add_result >>
    /\ UNCHANGED << registry, cycle, trace, reader, left_running, checkouts, git_writes,
                    clock,
                    root_found >>
    /\ UNCHANGED << snapshot_vars, call_vars >>

\* a panic inside generate_reverse_zones unwinds through task.run() and
\* background_updater: the spawned updater ends
DnsPanic ==
    /\ upd_pc = "dns_reverse"
    /\ pc = "panicked"
    /\ upd_pc' = "dead"
    /\ UNCHANGED << registry, cycle, trace, prepared, reader, left_running, checkouts,
                    git_writes,
                    clock, root_found >>
    /\ UNCHANGED << snapshot_vars, call_vars, core_vars, fwd_vars >>

\* task/dns.rs 52-55
DnsFormat ==
    /\ upd_pc = "dns_format"
    /\ prepared' = Some(zone_name_to_content(prepared[1]))
    /\ upd_pc' = "dns_lock"
    /\ UNCHANGED << registry, cycle, trace, reader, left_running, checkouts, git_writes,
                    clock,
                    root_found >>
    /\ UNCHANGED << snapshot_vars, call_vars, core_vars, fwd_vars >>

\* task/dns.rs 57: state.dns_data.write().unwrap()
DnsLock ==
    /\ upd_pc = "dns_lock"
    /\ can_write(dns_data)
    /\ IF dns_data.poisoned
       THEN upd_pc' = "dead" /\ UNCHANGED dns_data
       ELSE upd_pc' = "dns_stamp" /\ dns_data' = [dns_data EXCEPT !.writer = TRUE]
    /\ UNCHANGED << registry, cycle, trace, prepared, roa_data, published, reader,
                    left_running, checkouts, git_writes, clock, root_found >>
    /\ UNCHANGED << call_vars, core_vars, fwd_vars >>

\* task/dns.rs 59: data_lock.last_updated = now
DnsStamp ==
    /\ upd_pc = "dns_stamp"
    /\ dns_data' = [dns_data EXCEPT !.value.last_updated = cycle]
    /\ upd_pc' = "dns_store"
    /\ UNCHANGED << registry, cycle, trace, prepared, roa_data, published, reader,
                    left_running, checkouts, git_writes, clock, root_found >>
    /\ UNCHANGED << call_vars, core_vars, fwd_vars >>

\* task/dns.rs 60-63: the assignment, Ok(()) and the drop of the guard
DnsStore ==
    /\ upd_pc = "dns_store"
    /\ LET value == [dns_data.value EXCEPT !.content = prepared[1]]
       IN /\ dns_data' = [dns_data EXCEPT !.value = value, !.writer = FALSE]
          /\ published' = [published EXCEPT !.dns = @ \cup { value }]
    /\ prepared' = None
    /\ trace' = Append(trace, Step("dns", "ok"))
    /\ upd_pc' = "sleep"
    /\ UNCHANGED << registry, cycle, roa_data, reader, left_running, checkouts,
                    git_writes, clock,
                    root_found >>
    /\ UNCHANGED << call_vars, core_vars, fwd_vars >>

\* io.rs 83-86: the interval has passed and the loop starts over
UpdSleep ==
    /\ upd_pc = "sleep"
    /\ cycle < MaxCycles
    /\ cycle' = cycle + 1
    /\ trace' = << >>
    /\ root_found' = << >>
    /\ upd_pc' = "sync"
    /\ UNCHANGED << registry, prepared, reader, left_running, checkouts, git_writes,
                    clock >>
    /\ UNCHANGED << snapshot_vars, call_vars, core_vars, fwd_vars >>

\* main.rs 80-85: state.roa_data.read(); a poisoned lock is answered by 500
GetRoaJsonRead ==
    /\ reader.pc = "idle"
    /\ can_read(roa_data)
    /\ IF roa_data.poisoned
       THEN /\ reader' = [pc |-> "idle", status |-> Some(500)]
            /\ UNCHANGED roa_data
       ELSE /\ reader' = [pc |-> "roa", status |-> None]
            /\ roa_data' = [roa_data EXCEPT !.readers = @ + 1]
    /\ UNCHANGED << registry, cycle, upd_pc, trace, prepared, dns_data, published,
                    left_running, checkouts, git_writes, clock, root_found >>
    /\ UNCHANGED << call_vars, core_vars, fwd_vars >>

\* main.rs 87-91: the body sent is a clone of roa_data.value.json_content as
\* it is now; the guard is dropped
GetRoaJsonRespond ==
    /\ reader.pc = "roa"
    /\ reader' = [pc |-> "idle", status |-> Some(200)]
    /\ roa_data' = [roa_data EXCEPT !.readers = @ - 1]
    /\ UNCHANGED << registry, cycle, upd_pc, trace, prepared, dns_data, published,
                    left_running, checkouts, git_writes, clock, root_found >>
    /\ UNCHANGED << call_vars, core_vars, fwd_vars >>

\* main.rs 94-99: state.dns_data.read(); a poisoned lock is answered by 500
GetDnsConfRead ==
    /\ reader.pc = "idle"
    /\ can_read(dns_data)
    /\ IF dns_data.poisoned
       THEN /\ reader' = [pc |-> "idle", status |-> Some(500)]
            /\ UNCHANGED dns_data
       ELSE /\ reader' = [pc |-> "dns", status |-> None]
            /\ dns_data' = [dns_data EXCEPT !.readers = @ + 1]
    /\ UNCHANGED << registry, cycle, upd_pc, trace, prepared, roa_data, published,
                    left_running, checkouts, git_writes, clock, root_found >>
    /\ UNCHANGED << call_vars, core_vars, fwd_vars >>

\* main.rs 101-105: the body sent is a clone of dns_data.value.content as it
\* is now; the guard is dropped
GetDnsConfRespond ==
    /\ reader.pc = "dns"
    /\ reader' = [pc |-> "idle", status |-> Some(200)]
    /\ dns_data' = [dns_data EXCEPT !.readers = @ - 1]
    /\ UNCHANGED << registry, cycle, upd_pc, trace, prepared, roa_data, published,
                    left_running, checkouts, git_writes, clock, root_found >>
    /\ UNCHANGED << call_vars, core_vars, fwd_vars >>

UpdNext ==
    \/ RegistryRemoved
    \/ UpdSync
    \/ UpdSyncDone
    \/ GitGoesOn
    \/ RoaExists
    \/ DiscoverRecord
    \/ IsFile
    \/ ParseRecord
    \/ RoaParse
    \/ RoaLock
    \/ RoaStamp
    \/ RoaSerialize
    \/ RoaStore
    \/ DnsExists
    \/ DnsRecordsRead
    \/ InetnumRecordsRead
    \/ FwdNext
    \/ DnsReverse
    \/ Next
    \/ DnsExtend
    \/ DnsPanic
    \/ DnsFormat
    \/ DnsLock
    \/ DnsStamp
    \/ DnsStore
    \/ UpdSleep
    \/ GetRoaJsonRead
    \/ GetRoaJsonRespond
    \/ GetDnsConfRead
    \/ GetDnsConfRespond

SpecUpd == UpdInit /\ [][UpdNext]_vars

\* ---------------------------------------------------------------------------
\* Properties of the periodic driver
\* ---------------------------------------------------------------------------

\* the steps the current cycle has finished, in the order they finished
StepNames == [i \in 1..Len(trace) |-> trace[i].step]

StepResults == [i \in 1..Len(trace) |-> trace[i].result]

\* io.rs 65-82: refresh, then the tasks in declared order
CycleOrder == << "refresh", "roa", "dns" >>

IsPrefix(s, t) == Len(s) <= Len(t) /\ \A i \in 1..Len(s) : s[i] = t[i]

\* a cycle's steps finish in declared order; the ROA task starts once the
\* refresh has ended, the DNS task once the ROA task has ended, the wait once
\* the DNS task has ended, whatever their results
StepsInOrder ==
    /\ IsPrefix(StepNames, CycleOrder)
    /\ upd_pc \in { "sync", "syncing" } => StepNames = << >>
    /\ upd_pc = "roa" => StepNames = << "refresh" >>
    /\ upd_pc = "dns" => StepNames = << "refresh", "roa" >>
    /\ upd_pc = "sleep" => StepNames = CycleOrder

\* the spawned updater has not ended
UpdaterRuns == upd_pc # "dead"

\* C15: in every cycle the steps occur in the order refresh, ROA task, DNS
\* task, interval wait; an error of the refresh or of the ROA task does not
\* keep the DNS task from running, and no step keeps the next cycle from
\* starting: the updater never ends
C15_OrderedCyclesRepeatForever == StepsInOrder /\ UpdaterRuns

\* the DNS task of a cycle ran after the refresh and the ROA task both failed,
\* and in another run the updater ended inside the DNS task
C15_Witness ==
    /\ upd_pc = "dead"
    /\ StepNames = << "refresh", "roa" >>
    /\ pc = "panicked"

C15_WitnessErrorsPassed ==
    /\ upd_pc = "sleep"
    /\ cycle = MaxCycles
    /\ StepResults = << "err", "err", "err" >>

\* a handler holds a read guard on the ROA snapshot / on the DNS snapshot
ReadsRoa == reader.pc = "roa"

ReadsDns == reader.pc = "dns"

\* the writer task of the snapshot has started and not yet ended
RoaWriterRuns ==
    upd_pc \in { "roa_records", "roa_lock", "roa_stamp", "roa_serialize", "roa_store" }

DnsWriterRuns ==
    upd_pc \in { "dns_records", "inetnum_records", "dns_forward", "dns_reverse",
                 "dns_format", "dns_lock", "dns_stamp", "dns_store" }

\* C16: what a handler reads of a snapshot, also while the writer task runs,
\* is a value some cycle published in full (or the value of construction):
\* never a new last_updated with the old json_content or the old content map,
\* never a map mixing zones of two cycles
C16_ReaderObservesCompleteSnapshot ==
    /\ ReadsRoa => roa_data.value \in published.roa
    /\ ReadsDns => dns_data.value \in published.dns

\* in the second cycle a handler reads the ROA snapshot of the first cycle
\* while the ROA task waits for the write lock, and a handler reads the DNS
\* snapshot of the first cycle while the DNS task of the second is under way
C16_Witness ==
    /\ cycle = 2
    /\ \/ /\ ReadsRoa
          /\ upd_pc = "roa_lock"
          /\ roa_data.value.last_updated = 1
          /\ roa_data.value.json_content # String_new
       \/ /\ ReadsDns
          /\ upd_pc = "dns_lock"
          /\ dns_data.value.last_updated = 1
          /\ dns_data.value.content # << >>

C16_WitnessDns ==
    /\ cycle = 2
    /\ ReadsDns
    /\ DnsWriterRuns
    /\ dns_data.value.last_updated = 1
    /\ dns_data.value.content # << >>

C16_WitnessRoa ==
    /\ cycle = 2
    /\ ReadsRoa
    /\ RoaWriterRuns
    /\ roa_data.value.last_updated = 1

\* the record files of a directory that can be read
RECURSIVE Readable(_)
Readable(files) ==
    IF files = << >> THEN << >>
    ELSE (IF files[1] = None THEN << >> ELSE << files[1][1] >>) \o Readable(Tail(files))

\* a reading of a clock at or after the epoch
ClockAfterEpoch == CHOOSE reading \in ClockReadings : reading.ok

\* the ROA snapshot a cycle publishes from the readable route objects
RoaSnapshotOfReadable ==
    [json_content |->
         to_string_pretty(
             get_parsed_roa_routes(Readable(FilesIn(registry, route_directories)),
                                   ClockAfterEpoch, cycle).output),
     last_updated |-> cycle]

\* the TLDs of the readable domain objects that pass extraction
UsableTlds ==
    { ExtractedDomainInfo_try_from(f).info.tld :
        f \in { g \in Range(Readable(FilesIn(registry, dns_directories))) :
                    ExtractedDomainInfo_try_from(g).ok } }

\* the ROA task / the DNS task of the current cycle has ended
RoaTaskEnded == Len(trace) >= 2

DnsTaskEnded == Len(trace) >= 3

\* a task of the cycle that has ended has completed, and what it published is
\* derived from every record but the bad ones
EndedTasksPublished ==
    /\ RoaTaskEnded =>
          /\ trace[2].result = "ok"
          /\ roa_data.value = RoaSnapshotOfReadable
    /\ DnsTaskEnded =>
          /\ trace[3].result = "ok"
          /\ dns_data.value.last_updated = cycle
          /\ UsableTlds \subseteq DOMAIN dns_data.value.content
          /\ { InAddrArpa, Ip6Arpa } \subseteq DOMAIN dns_data.value.content

\* the tasks of the cycle complete, and what they publish is derived from
\* every record but the bad ones
BadRecordsAloneSkipped == UpdaterRuns /\ EndedTasksPublished

\* the checkout holds a file that cannot be read
HasUnreadable ==
    \E dir \in Range(route_directories \o dns_directories \o inetnum_directories) :
        \E entry \in EntriesOf(registry, dir) : entry.is_file /\ entry.content = None

\* the checkout lacks one of the record directories
HasMissingDirectory ==
    \E dir \in Range(route_directories \o dns_directories \o inetnum_directories) :
        registry[dir] = NoDirectory

\* the checkout holds a record whose fields fail extraction
HasUnextractable ==
    \/ BadRoute \in Range(Readable(FilesIn(registry, route_directories)))
    \/ BadDomain \in Range(Readable(FilesIn(registry, dns_directories)))
    \/ BadInetnum \in Range(Readable(FilesIn(registry, inetnum_directories)))

\* there is a checkout and it is the one the tasks of the cycle read: no git
\* child was left to write it beside them
CheckoutAsRead == registry.exists /\ ~left_running

\* C17: with a checkout in which one file of a directory cannot be read, or
\* one record fails extraction or is unusable, the tasks of the cycle
\* complete and publish the artifacts derived from all other records
C17_BadRecordAloneSkipped == CheckoutAsRead => BadRecordsAloneSkipped

\* what the code keeps of it: records that fail extraction are skipped by
\* every task that runs to its end, on a checkout all of whose directories and
\* files can be read
ExtractionFailuresSkipped ==
    (CheckoutAsRead /\ ~HasUnreadable /\ ~HasMissingDirectory) => EndedTasksPublished

\* a cycle has ended on a checkout with one unreadable domain file and one
\* unreadable route file: both tasks returned Err and published nothing
C17_Witness ==
    /\ CheckoutAsRead
    /\ HasUnreadable
    /\ upd_pc = "sleep"
    /\ StepResults[2] = "err"
    /\ StepResults[3] = "err"
    /\ roa_data.value # RoaSnapshotOfReadable
    /\ dns_data.value.last_updated # cycle

\* a cycle has ended on a checkout with records that fail extraction
C17_WitnessSkipped ==
    /\ CheckoutAsRead
    /\ HasUnextractable
    /\ ~HasUnreadable
    /\ upd_pc = "sleep"
    /\ BadRecordsAloneSkipped
    /\ UsableTlds # {}

\* the updater holds the write lock of a snapshot
WriteLockHeld == roa_data.writer \/ dns_data.writer

\* the ROA task is at a step that reads files, synthesizes or serializes
\* (RoaExists, DiscoverRecord, ParseRecord, RoaParse, RoaSerialize)
AtRoaComputation == upd_pc \in { "roa", "roa_records", "roa_serialize" }

\* the DNS task is at a step that reads files, synthesizes or formats
\* (DnsExists, DiscoverRecord, ParseRecord, the two synthesizers, DnsExtend,
\* DnsFormat)
AtDnsComputation ==
    upd_pc \in { "dns", "dns_records", "inetnum_records", "dns_forward", "dns_reverse",
                 "dns_format" }

\* C18: every computational or fallible step of the ROA task and of the DNS
\* task (reading files, synthesis, zone formatting, JSON serialization) is
\* taken while the updater holds no write lock: the lock is held only while
\* prepared values are assigned
C18_ComputationOffLock == (AtRoaComputation \/ AtDnsComputation) => ~WriteLockHeld

\* what the code keeps of it: the DNS task computes off-lock
DnsComputationOffLock == AtDnsComputation => ~WriteLockHeld

\* the ROA task is about to serialize its output: it holds the write lock
\* and has stamped the snapshot, whose json_content is still the old one
C18_Witness ==
    /\ upd_pc = "roa_serialize"
    /\ roa_data.writer
    /\ roa_data.value.last_updated = cycle
    /\ roa_data.value \notin published.roa

\* no generation task has completed successfully: the snapshots were written
\* by construction only
NothingPublished ==
    published = [roa |-> { ROACache_default(0) }, dns |-> { DNSCache_default(0) }]

\* the text is a JSON document of an empty ROA with zero counts
IsEmptyRoaDocument(text) ==
    /\ Len(text) = 1
    /\ text[1].metadata.counts = 0
    /\ text[1].metadata.roas = 0
    /\ text[1].roas = << >>

\* C19: before any generation task has completed successfully, a read of the
\* ROA snapshot yields an empty ROA document with zero counts, a read of the
\* DNS snapshot yields an empty content map, and no read is answered by an
\* error status
C19_EmptySnapshotsBeforeFirstRun ==
    NothingPublished =>
        /\ ReadsRoa => IsEmptyRoaDocument(roa_data.value.json_content)
        /\ ReadsDns => dns_data.value.content = << >>
        /\ reader.status # Some(500)

\* what the code keeps of it: the ROA body is the empty string, the DNS
\* content map is empty, and no read fails
EmptyBodiesBeforeFirstRun ==
    NothingPublished =>
        /\ ReadsRoa => roa_data.value.json_content = String_new
        /\ ReadsDns => dns_data.value.content = << >>
        /\ reader.status # Some(500)

\* a handler reads the ROA snapshot before the first ROA task has ended: the
\* body it sends is the empty string
C19_Witness ==
    /\ NothingPublished
    /\ ReadsRoa
    /\ roa_data.value.json_content = String_new
    /\ ~IsEmptyRoaDocument(roa_data.value.json_content)

\* once the ROA task has run without a checkout the snapshot is the empty
\* ROA document the claim describes
C19_WitnessAfterFirstRun ==
    /\ ~registry.exists
    /\ ReadsRoa
    /\ IsEmptyRoaDocument(roa_data.value.json_content)

-----------------------------------------------------------------------------
(* Prefix harness: a client building a Prefix and taking it through the     *)
(* bit operations (src/src/model/record.rs, lines 60-150 and 161-192)       *)

\* Prefix::from_bits_v4
from_bits_v4(bits) ==
    IF Len(bits) > 32 THEN None
    ELSE Some([network |-> [v |-> 4,
                            octets |-> vec_to_slice_zero_fill(4, bits_to_octets(bits))],
               prefix_len |-> Len(bits)])

\* Prefix::from_bits_v6
from_bits_v6(bits) ==
    IF Len(bits) > 128 THEN None
    ELSE Some([network |-> [v |-> 6,
                            octets |-> vec_to_slice_zero_fill(16, bits_to_octets(bits))],
               prefix_len |-> Len(bits)])

\* the from_bits of the family of p, applied to the bits of p
from_bits_of_get_bits(p) ==
    IF p.network.v = 4 THEN from_bits_v4(get_bits(p)) ELSE from_bits_v6(get_bits(p))

\* addresses as written: with and without bits set in every octet
PrefixNetworks ==
    { V4(0, 0, 0, 0), V4(10, 0, 0, 1), V4(192, 168, 128, 0), V4(255, 255, 255, 255),
      Zero6, Doc6(1), Ula6(65535) }

\* lengths as written, around the octet boundaries and the family maxima
PrefixLens == { 0, 1, 7, 8, 9, 17, 20, 31, 32, 33, 64, 127, 128, 129 }

\* "a.b.c.d/n".parse::<Prefix>() or Prefix::new(ip, n); a rejected
\* construction leaves nothing to operate on
PfxConstruct ==
    /\ rev_in = None
    /\ \E network \in PrefixNetworks, prefix_len \in PrefixLens,
          built_by \in { "new", "from_str" } :
         \E made \in { IF built_by = "new" THEN Prefix_new(network, prefix_len)
                       ELSE Prefix_from_str(network, prefix_len) } :
            /\ made.ok
            /\ rev_in' = Some([built_by |-> built_by, p |-> made.prefix])
    /\ UNCHANGED << overflow_checks, ipv4_tree, ipv6_tree, inserted, rev_out,
                    record_files, idx, cidr_to_nameservers, cidr_to_ds_rdata, pending,
                    ipv4_zone, ipv6_zone, counter, pc, last_visit, zone, add_result >>
    /\ UNCHANGED fwd_vars
    /\ UNCHANGED upd_vars

\* Prefix::from_bits_v4(&p.get_bits()) or Prefix::from_bits_v6(&p.get_bits())
PfxFromBits ==
    /\ rev_in # None
    /\ rev_out = None
    /\ rev_out' = Some([op |-> "from_bits", n |-> rev_in[1].p.prefix_len,
                        value |-> from_bits_of_get_bits(rev_in[1].p)])
    /\ UNCHANGED << overflow_checks, ipv4_tree, ipv6_tree, inserted, rev_in,
                    record_files, idx, cidr_to_nameservers, cidr_to_ds_rdata, pending,
                    ipv4_zone, ipv6_zone, counter, pc, last_visit, zone, add_result >>
    /\ UNCHANGED fwd_vars
    /\ UNCHANGED upd_vars

\* p.with_prefix_len(n), with n the length of p or any other u8; the call
\* returns Self, never an error
PfxWithPrefixLen ==
    /\ rev_in # None
    /\ rev_out = None
    /\ \E n \in PrefixLens \cup { rev_in[1].p.prefix_len } :
         rev_out' = Some([op |-> "with_prefix_len", n |-> n,
                          value |-> Some(with_prefix_len(rev_in[1].p, n))])
    /\ UNCHANGED << overflow_checks, ipv4_tree, ipv6_tree, inserted, rev_in,
                    record_files, idx, cidr_to_nameservers, cidr_to_ds_rdata, pending,
                    ipv4_zone, ipv6_zone, counter, pc, last_visit, zone, add_result >>
    /\ UNCHANGED fwd_vars
    /\ UNCHANGED upd_vars

PfxInit == Idle

PfxNext == PfxConstruct \/ PfxFromBits \/ PfxWithPrefixLen

SpecPrefix == PfxInit /\ [][PfxNext]_vars

\* the bits of the address beyond the prefix length are zero
HostBitsZero(p) == Prefix_new(p.network, p.prefix_len).prefix = p

\* every bit of the network at a position >= prefix_len is zero
BitsBeyondLenZero(p) ==
    \A i \in (p.prefix_len + 1)..(8 * FamilyOctets(p.network.v)) :
        FirstBits(p.network.octets, i)[i] = 0

\* C20: for every Prefix p of either family, built by Prefix::new or by
\* parsing, from_bits_v4/v6(get_bits(p)) is p and
\* p.with_prefix_len(p.prefix_len()) is p
C20_BitRoundTrip ==
    (rev_out # None /\ rev_out[1].n = rev_in[1].p.prefix_len)
        => rev_out[1].value = Some(rev_in[1].p)

\* C20 as amended: for every Prefix p of either family whose network bits at
\* positions >= prefix_len are zero, from_bits_v4/v6(get_bits(p)) is p and
\* p.with_prefix_len(p.prefix_len()) is p
C20_RoundTripWhenHostBitsZero ==
    (/\ rev_out # None
     /\ rev_out[1].n = rev_in[1].p.prefix_len
     /\ BitsBeyondLenZero(rev_in[1].p))
        => rev_out[1].value = Some(rev_in[1].p)

BuiltByNewHostBitsZero ==
    (rev_in # None /\ rev_in[1].built_by = "new") => HostBitsZero(rev_in[1].p)

\* a parsed prefix with host bits has gone through from_bits(get_bits(p)) and
\* came back as another prefix
C20_Witness ==
    /\ rev_in # None
    /\ rev_out # None
    /\ rev_in[1].built_by = "from_str"
    /\ ~HostBitsZero(rev_in[1].p)
    /\ rev_out[1].op = "from_bits"
    /\ rev_out[1].value # Some(rev_in[1].p)

\* "192.168.128.0/17", parsed, has gone through from_bits(get_bits(p)) and
\* came back as itself
C20_WitnessMasked ==
    /\ rev_in # None
    /\ rev_out # None
    /\ rev_in[1].built_by = "from_str"
    /\ rev_in[1].p = [network |-> V4(192, 168, 128, 0), prefix_len |-> 17]
    /\ rev_out[1].op = "from_bits"
    /\ rev_out[1].value = Some(rev_in[1].p)

\* Vec::truncate(n) on the bits, or the bits followed by zero bits up to n
truncate_or_extend(bits, n) == [i \in 1..n |-> IF i <= Len(bits) THEN bits[i] ELSE 0]

\* from_bits_v4 or from_bits_v6, by family
from_bits(v, bits) == IF v = 4 THEN from_bits_v4(bits) ELSE from_bits_v6(bits)

\* the network of the family with every bit zero
ZeroNetwork(v) == [v |-> v, octets |-> [i \in 1..FamilyOctets(v) |-> 0]]

\* with_prefix_len has been called with a length within the family maximum
Resized ==
    /\ rev_out # None
    /\ rev_out[1].op = "with_prefix_len"
    /\ rev_out[1].n <= FamilyMaxLen(rev_in[1].p.network.v)

\* C21: for n within the family maximum, p.with_prefix_len(n) is from_bits of
\* the bits of p truncated to n bits or extended with zero bits to n bits: its
\* prefix_len is n, its first min(n, prefix_len(p)) bits are those of p and
\* all later bits are zero; with_prefix_len(0).with_prefix_len(max) is the
\* all-zero network
C21_WithPrefixLenIsFromBits ==
    Resized =>
        LET p == rev_in[1].p
            n == rev_out[1].n
            q == rev_out[1].value[1]
            kept == Min(n, p.prefix_len)
        IN /\ rev_out[1].value = from_bits(p.network.v, truncate_or_extend(get_bits(p), n))
           /\ q.prefix_len = n
           /\ \A i \in 1..(8 * FamilyOctets(p.network.v)) :
                 FirstBits(q.network.octets, i)[i] =
                     (IF i <= kept THEN FirstBits(p.network.octets, i)[i] ELSE 0)
           /\ with_prefix_len(with_prefix_len(p, 0), FamilyMaxLen(p.network.v)) =
                 [network |-> ZeroNetwork(p.network.v),
                  prefix_len |-> FamilyMaxLen(p.network.v)]

\* a parsed prefix with host bits has been extended: the bits beyond its own
\* length come out as zero, not as written
C21_Witness ==
    /\ Resized
    /\ rev_in[1].built_by = "from_str"
    /\ ~HostBitsZero(rev_in[1].p)
    /\ rev_out[1].n > rev_in[1].p.prefix_len
    /\ rev_out[1].value[1].network # rev_in[1].p.network

\* a prefix has been truncated inside an octet
C21_WitnessTruncated ==
    /\ Resized
    /\ rev_out[1].n = 9
    /\ rev_in[1].p.prefix_len = 32
    /\ rev_in[1].p.network = V4(255, 255, 255, 255)
    /\ rev_out[1].value[1].network = V4(255, 128, 0, 0)

\* C22: with_prefix_len(n) rejects every n above the family maximum: no
\* Prefix whose prefix_len exceeds 32 (IPv4) or 128 (IPv6) comes out of it
C22_WithPrefixLenRejectsAboveMax ==
    (rev_out # None /\ rev_out[1].op = "with_prefix_len" /\ rev_out[1].value # None)
        => rev_out[1].value[1].prefix_len <= FamilyMaxLen(rev_in[1].p.network.v)

\* with_prefix_len(33) on an IPv4 prefix has returned a Prefix of length 33
C22_Witness ==
    /\ rev_out # None
    /\ rev_out[1].op = "with_prefix_len"
    /\ rev_in[1].p.network.v = 4
    /\ rev_out[1].n = 33
    /\ rev_out[1].value # None
    /\ rev_out[1].value[1].prefix_len = 33

\* C23: every Prefix that can be constructed, through Prefix::new, parsing,
\* from_bits_v4/v6 or with_prefix_len, has all network bits at positions
\* >= prefix_len equal to zero
C23_HostBitsZero ==
    /\ rev_in # None => BitsBeyondLenZero(rev_in[1].p)
    /\ (rev_out # None /\ rev_out[1].value # None) => BitsBeyondLenZero(rev_out[1].value[1])

\* C23 as amended: every Prefix built through Prefix::new, from_bits_v4/v6 or
\* with_prefix_len has all network bits at positions >= prefix_len equal to
\* zero (Prefix::from_str keeps the address as written)
C23_HostBitsZeroUnlessParsed ==
    /\ (rev_in # None /\ rev_in[1].built_by = "new") => BitsBeyondLenZero(rev_in[1].p)
    /\ (rev_out # None /\ rev_out[1].value # None) => BitsBeyondLenZero(rev_out[1].value[1])

\* "10.0.0.1/8" has been parsed: the Prefix holds 10.0.0.1
C23_Witness ==
    /\ rev_in # None
    /\ rev_in[1].built_by = "from_str"
    /\ rev_in[1].p = [network |-> V4(10, 0, 0, 1), prefix_len |-> 8]
    /\ ~BitsBeyondLenZero(rev_in[1].p)

\* Prefix::new has been given 10.0.0.1 and length 8: the Prefix holds 10.0.0.0
C23_WitnessMasked ==
    /\ rev_in # None
    /\ rev_in[1].built_by = "new"
    /\ rev_in[1].p = [network |-> V4(10, 0, 0, 0), prefix_len |-> 8]
    /\ rev_out # None
    /\ rev_out[1].op = "with_prefix_len"
    /\ rev_out[1].n = 1

-----------------------------------------------------------------------------
(* Zone file text  (src/src/formatter/dns_zone.rs)                         *)

RECORD_NAME_COLUMN_MIN_WIDTH == 5
RECORD_TTL_COLUMN_MIN_WIDTH == 3
RECORD_CLASS_COLUMN_WIDTH == 2
RECORD_TYPE_COLUMN_WIDTH == 4

\* str::cmp: "Less", "Equal" or "Greater"; the order of the UTF-8 bytes is
\* the order of the code points
RECURSIVE str_cmp(_, _)
str_cmp(x, y) ==
    IF x = << >> /\ y = << >> THEN "Equal"
    ELSE IF x = << >> THEN "Less"
    ELSE IF y = << >> THEN "Greater"
    ELSE IF code_point(x[1]) < code_point(y[1]) THEN "Less"
    ELSE IF code_point(x[1]) > code_point(y[1]) THEN "Greater"
    ELSE str_cmp(Tail(x), Tail(y))

Max(S) == CHOOSE x \in S : \A y \in S : y <= x

\* " ".repeat(n)
repeat_space(n) == [i \in 1..n |-> " "]

\* format!("{:<width$}", text): left-aligned, padded with spaces to the width
pad_left_aligned(text, width) ==
    IF Len(text) >= width THEN text ELSE text \o repeat_space(width - Len(text))

\* FQDNName::relative_to
relative_to(self, parent) ==
    IF ~(is_child_of(self, parent) \/ self = parent) THEN None
    ELSE LET self_labels == split(trim_end_matches(self, "."), ".")
             parent_labels == split(trim_end_matches(parent, "."), ".")
             relative_labels == SubSeq(self_labels, 1, Len(self_labels) - Len(parent_labels))
         IN IF relative_labels = << >> THEN Some(<< "@" >>)
            ELSE Some(join(relative_labels, "."))

\* DNSRecordData::type_str
type_str(data) ==
    CASE data.type = "A" -> << "A" >>
      [] data.type = "AAAA" -> << "A","A","A","A" >>
      [] data.type = "CNAME" -> << "C","N","A","M","E" >>
      [] data.type = "MX" -> << "M","X" >>
      [] data.type = "TXT" -> << "T","X","T" >>
      [] data.type = "NS" -> << "N","S" >>
      [] data.type = "SOA" -> << "S","O","A" >>
      [] data.type = "PTR" -> << "P","T","R" >>
      [] data.type = "SRV" -> << "S","R","V" >>

\* calculate_default_ttl: the TTLs the call can return. The counts live in a
\* HashMap and max_by keeps the last maximal entry of its iteration, so any
\* TTL of maximal count can come out; 3600 when there is no record
\* variant: the default TTL is always 3600
calculate_default_ttl_constant(z) == { DEFAULT_TTL }

calculate_default_ttl(z) ==
    LET ttl_to_count == [ttl \in { r.ttl : r \in z.records } |->
                            Cardinality({ r \in z.records : r.ttl = ttl })]
    IN IF z.records = {} THEN { DEFAULT_TTL }
       ELSE { ttl \in DOMAIN ttl_to_count :
                \A other \in DOMAIN ttl_to_count : ttl_to_count[other] <= ttl_to_count[ttl] }

\* generate_header: the $TTL line and the $ORIGIN line
generate_header(ttl, origin) ==
    << << "$","T","T","L"," " >> \o to_string(ttl),
       << "$","O","R","I","G","I","N"," " >> \o ensure_fqdn(origin) >>

\* Ipv4Addr Display
ipv4_to_string(octets) == join([i \in DOMAIN octets |-> to_string(octets[i])], ".")

\* format!("{:x}", segment): lower-case hexadecimal, no leading zeros
RECURSIVE to_hex(_)
to_hex(n) ==
    IF n < 16 THEN format_hex(n) ELSE to_hex(n \div 16) \o format_hex(n % 16)

\* Ipv6Addr Display: "::ffff:" and the dotted quad for an IPv4-mapped address;
\* otherwise the eight segments in hexadecimal, the first longest run of two or
\* more zero segments written as "::"
ipv6_to_string(octets) ==
    LET segments == [k \in 1..8 |-> octets[2 * k - 1] * 256 + octets[2 * k]]
        fmt_subslice(chunk) == join([i \in DOMAIN chunk |-> to_hex(chunk[i])], ":")
        \* the length of the run of zero segments that starts at segment i
        run(i) == IF segments[i] # 0 \/ (i > 1 /\ segments[i - 1] = 0) THEN 0
                  ELSE Cardinality({ j \in i..8 : \A k \in i..j : segments[k] = 0 })
        len == CHOOSE n \in { run(i) : i \in 1..8 } : \A i \in 1..8 : run(i) <= n
        start == CHOOSE i \in 1..8 : run(i) = len /\ \A j \in 1..(i - 1) : run(j) < len
    IN IF \A k \in 1..5 : segments[k] = 0 /\ segments[6] = 65535
       THEN << ":",":","f","f","f","f",":" >> \o ipv4_to_string(SubSeq(octets, 13, 16))
       ELSE IF len > 1
       THEN fmt_subslice(SubSeq(segments, 1, start - 1)) \o << ":",":" >>
            \o fmt_subslice(SubSeq(segments, start + len, 8))
       ELSE fmt_subslice(segments)

\* s.replace('"', "\\\"")
RECURSIVE escape_quotes(_)
escape_quotes(s) ==
    IF s = << >> THEN << >>
    ELSE (IF s[1] = "\"" THEN << "\\", "\"" >> ELSE << s[1] >>) \o escape_quotes(Tail(s))

RECURSIVE join_str(_, _)
join_str(parts, sep) ==
    IF parts = << >> THEN << >>
    ELSE IF Len(parts) = 1 THEN parts[1]
    ELSE parts[1] \o sep \o join_str(Tail(parts), sep)

\* generate_record_data: [panic, text]; SOA data panics ("SOA record data
\* should be handled separately")
generate_record_data(data) ==
    CASE data.type = "A" -> [panic |-> FALSE, text |-> ipv4_to_string(data.addr)]
      [] data.type = "AAAA" -> [panic |-> FALSE, text |-> ipv6_to_string(data.addr)]
      [] data.type = "CNAME" -> [panic |-> FALSE, text |-> ensure_fqdn(data.text)]
      [] data.type = "MX" ->
           [panic |-> FALSE,
            text |-> to_string(data.preference) \o << " " >> \o ensure_fqdn(data.exchange)]
      [] data.type = "TXT" ->
           [panic |-> FALSE,
            text |-> join_str([i \in DOMAIN data.txts |->
                                 << "\"" >> \o escape_quotes(data.txts[i]) \o << "\"" >>],
                              << " " >>)]
      [] data.type = "NS" -> [panic |-> FALSE, text |-> ensure_fqdn(data.text)]
      [] data.type = "SOA" -> [panic |-> TRUE, text |-> << >>]
      [] data.type = "PTR" -> [panic |-> FALSE, text |-> ensure_fqdn(data.text)]
      [] data.type = "SRV" ->
           [panic |-> FALSE,
            text |-> to_string(data.priority) \o << " " >> \o to_string(data.weight)
                     \o << " " >> \o to_string(data.port) \o << " " >>
                     \o ensure_fqdn(data.target)]

name_column_width(records, current_origin) ==
    Max({ RECORD_NAME_COLUMN_MIN_WIDTH }
        \cup { LET r == relative_to(rec.name, current_origin)
               IN IF r = None THEN 0 ELSE Len(r[1]) : rec \in records })

ttl_column_width(records, default_ttl) ==
    Max({ RECORD_TTL_COLUMN_MIN_WIDTH }
        \cup { IF rec.ttl # default_ttl THEN Len(to_string(rec.ttl)) ELSE 0 :
                 rec \in records })

\* class as usize is 1 for IN
class_column_width(records) == Max({ RECORD_CLASS_COLUMN_WIDTH } \cup { 1 : rec \in records })

type_column_width(records) ==
    Max({ RECORD_TYPE_COLUMN_WIDTH } \cup { Len(type_str(rec.data)) : rec \in records })

\* the comparator of records.sort_by: by name, then by type
record_cmp(x, y) ==
    LET by_name == str_cmp(x.name, y.name)
    IN IF by_name # "Equal" THEN by_name ELSE str_cmp(type_str(x.data), type_str(y.data))

\* the orders records.sort_by can leave the records in: the sort is stable and
\* starts from the iteration order of the HashSet, so records that compare
\* equal may come out in any order
RECURSIVE sorted_records(_)
sorted_records(records) ==
    IF records = {} THEN { << >> }
    ELSE UNION { { << first >> \o rest : rest \in sorted_records(records \ { first }) } :
                   first \in { rec \in records :
                                 \A other \in records : record_cmp(rec,
                    other) # "Greater" } }

\* one line of generate_record_lines
record_line(record, current_origin, default_ttl, records) ==
    LET name == pad_left_aligned(relative_to(record.name, current_origin)[1],
                                 name_column_width(records, current_origin))
        ttl_str == IF record.ttl # default_ttl
                   THEN pad_left_aligned(to_string(record.ttl),
                                         ttl_column_width(records,
                    default_ttl)) \o << " " >>
                   ELSE repeat_space(ttl_column_width(records, default_ttl) + 1)
        class_str == pad_left_aligned(<< "I","N" >>, class_column_width(records)) \o << " " >>
        type_text == pad_left_aligned(type_str(record.data), type_column_width(records))
                     \o << " " >>
    IN name \o << " " >> \o ttl_str \o << " " >> \o class_str \o << " " >> \o type_text
       \o generate_record_data(record.data).text

\* generate_record_lines: [panic, lines], the lines for the records in the given
\* sorted order; a record whose name is not relative to the origin is left out,
\* and a record of SOA data panics
generate_record_lines(order, current_origin, default_ttl) ==
    LET records == Range(order)
        kept == SelectSeq(order, LAMBDA rec : relative_to(rec.name, current_origin) # None)
    IN IF \E i \in DOMAIN kept : generate_record_data(kept[i].data).panic
       THEN [panic |-> TRUE, lines |-> << >>]
       ELSE [panic |-> FALSE,
             lines |-> [i \in DOMAIN kept |->
                          record_line(kept[i], current_origin, default_ttl, records)]]

\* the text format_dns_zone returns for a default TTL and a record order it can
\* arrive at: header lines, SOA block, record lines; [panic |-> TRUE] when
\* generate_soa_header or generate_record_lines panics
format_dns_zone_text(z, default_ttl, order) ==
    IF z.soa.type # "SOA" \/ generate_record_lines(order, z.origin, default_ttl).panic
    THEN [panic |-> TRUE]
    ELSE [panic |-> FALSE,
          header |-> generate_header(default_ttl, z.origin),
          soa_block |-> z.soa,
          record_lines |-> generate_record_lines(order, z.origin, default_ttl).lines]

-----------------------------------------------------------------------------
(* Format harness: a client building one DNSZone and formatting it         *)

ADn42 == << "a",".","d","n","4","2" >>
BADn42 == << "b",".","a",".","d","n","4","2" >>

\* records of three TTLs, 3600 among them, under two names; two of them share
\* name and type, one carries an IPv6 address and one SOA data
FormatRecords ==
    { DNSRecord(Dn42, DEFAULT_TTL, NS(dns_primary_master)),
      DNSRecord(Dn42, 300, NS(NsName2)),
      DNSRecord(ADn42, 300, A(V4(172, 20, 0, 53))),
      DNSRecord(ADn42Dot, 86400, A(V4(172, 20, 0, 54))),
      DNSRecord(BADn42, 86400, CNAME(ADn42Dot)),
      DNSRecord(ADn42, DEFAULT_TTL, AAAA(Ula6(53))),
      DNSRecord(Dn42, DEFAULT_TTL,
                SOA(dns_primary_master, dns_responsible_person, 1, 3600, 600, 604800, 1440)) }

FmtInit ==
    /\ zone = Some(new_zone(Dn42, dns_primary_master, dns_responsible_person, 0))
    /\ add_result = None
    /\ overflow_checks = FALSE
    /\ ipv4_tree = PrefixTree_new
    /\ ipv6_tree = PrefixTree_new
    /\ inserted = << >>
    /\ rev_in = None
    /\ rev_out = None
    /\ record_files = << >>
    /\ idx = 0
    /\ cidr_to_nameservers = << >>
    /\ cidr_to_ds_rdata = << >>
    /\ pending = << >>
    /\ ipv4_zone = None
    /\ ipv6_zone = None
    /\ counter = ReverseRecordCounter_default
    /\ pc = "idle"
    /\ last_visit = None
    /\ ForwardIdle
    /\ UpdaterIdle

\* zone.add_record(record)
FmtAddRecord ==
    /\ pc = "idle"
    /\ \E record \in FormatRecords :
         \E result \in { add_record(zone[1], record) } :
            /\ zone' = Some(result.zone)
            /\ add_result' = Some([record |-> record, ok |-> result.ok,
                                   before |-> zone[1].records])
    /\ rev_out' = None
    /\ UNCHANGED << overflow_checks, ipv4_tree, ipv6_tree, inserted, rev_in,
                    record_files, idx, cidr_to_nameservers, cidr_to_ds_rdata, pending,
                    ipv4_zone, ipv6_zone, counter, pc, last_visit >>
    /\ UNCHANGED fwd_vars
    /\ UNCHANGED upd_vars

\* format_dns_zone(&zone), the text kept by the caller together with the
\* default TTL and the record order the call arrived at; a panic of the
\* formatter ends the client
FmtFormat ==
    /\ pc = "idle"
    /\ rev_out = None
    /\ \E default_ttl \in calculate_default_ttl(zone[1]) :
         \E order \in sorted_records(zone[1].records) :
            \E text \in { format_dns_zone_text(zone[1], default_ttl, order) } :
               IF text.panic
               THEN /\ pc' = "panicked"
                    /\ rev_out' = rev_out
               ELSE /\ pc' = pc
                    /\ rev_out' = Some([default_ttl |-> default_ttl, order |-> order,
                                        text |-> text])
    /\ UNCHANGED << overflow_checks, ipv4_tree, ipv6_tree, inserted, rev_in,
                    record_files, idx, cidr_to_nameservers, cidr_to_ds_rdata, pending,
                    ipv4_zone, ipv6_zone, counter, last_visit, zone, add_result >>
    /\ UNCHANGED fwd_vars
    /\ UNCHANGED upd_vars

FmtNext == FmtAddRecord \/ FmtFormat

SpecFormat == FmtInit /\ [][FmtNext]_vars

\* how many records of the zone carry the TTL
TtlCount(ttl) == Cardinality({ rec \in zone[1].records : rec.ttl = ttl })

\* the TTL field of a record line: the ttl_column_width + 1 characters that
\* follow the name column and its separating space
TtlField(line, default_ttl) ==
    LET start == name_column_width(zone[1].records, zone[1].origin) + 2
    IN SubSeq(line, start, start + ttl_column_width(zone[1].records, default_ttl))

\* the number a $TTL line gives
HeaderTtl(line) == SubSeq(line, 6, Len(line))

\* C24: format_dns_zone uses as default TTL a TTL whose number of occurrences
\* among the zone's records is maximal (3600 when the zone has no records),
\* emits it in the $TTL line, renders the TTL field of every record whose TTL
\* is the default as ttl_column_width + 1 spaces and of every other record as
\* its decimal value; a zone whose records share one TTL has a blank TTL field
\* on every record line
C24_MostFrequentTtlElided ==
    rev_out # None =>
        LET out == rev_out[1]
            d == out.default_ttl
            records == zone[1].records
            lines == out.text.record_lines
        IN /\ records = {} => d = 3600
           /\ records # {} => (TtlCount(d) > 0 /\ \A rec \in records : TtlCount(rec.ttl) <= TtlCount(d))
           /\ SubSeq(out.text.header[1], 1, 5) = << "$","T","T","L"," " >>
           /\ HeaderTtl(out.text.header[1]) = to_string(d)
           /\ Len(lines) = Cardinality(records)
           /\ \A k \in DOMAIN lines :
                IF out.order[k].ttl = d
                THEN TtlField(lines[k], d) = repeat_space(ttl_column_width(records, d) + 1)
                ELSE /\ trim_end_matches(TtlField(lines[k], d), " ") = to_string(out.order[k].ttl)
                     /\ TtlField(lines[k], d)[Len(TtlField(lines[k], d))] = " "
           /\ (\A x, y \in records : x.ttl = y.ttl) =>
                \A k \in DOMAIN lines :
                    \A i \in DOMAIN TtlField(lines[k], d) : TtlField(lines[k], d)[i] = " "

\* a zone with two records of TTL 300, one of 3600 and one of 86400 has been
\* formatted: $TTL 300, blank fields on the two, decimal fields on the others
C24_Witness ==
    /\ rev_out # None
    /\ Cardinality(zone[1].records) = 4
    /\ TtlCount(300) = 2
    /\ TtlCount(86400) = 1
    /\ rev_out[1].text.header[1] = << "$","T","T","L"," ","3","0","0" >>
    /\ \E k \in DOMAIN rev_out[1].text.record_lines :
         Text(rev_out[1].text.record_lines[k]) = "@     3600   IN  NS   ns.dn42."
    /\ \E k \in DOMAIN rev_out[1].text.record_lines :
         Text(rev_out[1].text.record_lines[k]) = "a            IN  A    172.20.0.53"

\* a tie: one record of TTL 3600 and one of TTL 300, and the $TTL line says 300
C24_WitnessTie ==
    /\ rev_out # None
    /\ Cardinality(zone[1].records) = 2
    /\ TtlCount(300) = 1
    /\ TtlCount(3600) = 1
    /\ rev_out[1].default_ttl = 300

\* the zone without records: $TTL 3600 and no record line
C24_WitnessEmpty ==
    /\ rev_out # None
    /\ zone[1].records = {}
    /\ rev_out[1].text.header = << << "$","T","T","L"," ","3","6","0","0" >>,

                                                      << "$","O","R","I","G","I","N"," ","d","n","4","2","." >> >>
    /\ rev_out[1].text.record_lines = << >>

-----------------------------------------------------------------------------
(* Name harness: a client comparing FQDNNames with is_child_of             *)

\* valid names as written: with and without the root dot, in both cases of
\* letters, nested three deep, one that ends in the characters of another
\* without being below it, and unrelated ones
ChildNamesWritten ==
    { Dn42,
      << "D","N","4","2","." >>,
      ADn42,
      << "A",".","d","n","4","2","." >>,
      BADn42,
      << "b",".","a",".","D","n","4","2","." >>,
      << "x","d","n","4","2" >>,
      << "d","n","4","2",".","c","o","m" >>,
      << "a" >>,
      << "4","2","." >> }

\* FQDNName::new(name).unwrap() followed by the is_child_of calls among three names
NameCompare ==
    /\ rev_in = None
    /\ \E x, y, z \in ChildNamesWritten :
         \E a \in { FQDNName_new(x) }, b \in { FQDNName_new(y) }, c \in { FQDNName_new(z) } :
            /\ a.ok /\ b.ok /\ c.ok
            /\ rev_in' = Some([a |-> a.name, b |-> b.name, c |-> c.name])
            /\ rev_out' = Some([aa |-> is_child_of(a.name, a.name),
                                ab |-> is_child_of(a.name, b.name),
                                ba |-> is_child_of(b.name, a.name),
                                bc |-> is_child_of(b.name, c.name),
                                ac |-> is_child_of(a.name, c.name)])
    /\ UNCHANGED << overflow_checks, ipv4_tree, ipv6_tree, inserted,
                    record_files, idx, cidr_to_nameservers, cidr_to_ds_rdata, pending,
                    ipv4_zone, ipv6_zone, counter, pc, last_visit, zone, add_result >>
    /\ UNCHANGED fwd_vars
    /\ UNCHANGED upd_vars

NameInit == Idle

NameNext == NameCompare

SpecName == NameInit /\ [][NameNext]_vars

\* the labels of a name: the pieces between its dots, the root dot set aside
LabelsOf(name) == split(strip_suffix_or(name, "."), ".")

\* b's labels are a proper suffix of a's labels
ProperLabelSuffix(a, b) ==
    \E k \in 1..Len(LabelsOf(a)) :
        /\ Len(LabelsOf(a)) = k + Len(LabelsOf(b))
        /\ \A i \in DOMAIN LabelsOf(b) : LabelsOf(a)[k + i] = LabelsOf(b)[i]

\* C25: is_child_of is a strict partial order over the valid FQDNs, with or
\* without a trailing dot: irreflexive, asymmetric and transitive, and
\* a.is_child_of(b) holds exactly when a has strictly more labels than b and
\* b's labels are the suffix of a's labels
C25_IsChildOfStrictOrder ==
    rev_out # None =>
        /\ ~rev_out[1].aa
        /\ ~(rev_out[1].ab /\ rev_out[1].ba)
        /\ (rev_out[1].ab /\ rev_out[1].bc) => rev_out[1].ac
        /\ rev_out[1].ab <=> ProperLabelSuffix(rev_in[1].a, rev_in[1].b)

\* "b.a.Dn42." is below "A.dn42." and that below "dn42": the three calls say so
C25_Witness ==
    /\ rev_in # None
    /\ Text(rev_in[1].a) = "b.a.dn42."
    /\ Text(rev_in[1].b) = "a.dn42."
    /\ Text(rev_in[1].c) = "dn42"
    /\ rev_out[1].ab /\ rev_out[1].bc /\ rev_out[1].ac

\* "xdn42" ends in the characters of "dn42" and is not below it
C25_WitnessNotLabelSuffix ==
    /\ rev_in # None
    /\ Text(rev_in[1].a) = "xdn42"
    /\ Text(rev_in[1].b) = "dn42."
    /\ ~rev_out[1].ab

-----------------------------------------------------------------------------
(* generate_reverse_zones: the side maps and the zones returned            *)

\* C26: every prefix passed to the leaf visitor of the IPv4 or IPv6 trie is a
\* key of both cidr_to_nameservers and cidr_to_ds_rdata, for every input whose
\* cidr parses (a cidr written with non-zero host bits included), so the map
\* lookups of the visitor never fail
C26_VisitedLeafIsKeyOfBothMaps ==
    last_visit # None =>
        /\ last_visit[1].prefix \in DOMAIN cidr_to_nameservers
        /\ last_visit[1].prefix \in DOMAIN cidr_to_ds_rdata

\* what the code keeps of it: a leaf is a key of both maps or of neither, and
\* it is a key whenever every cidr of the input has its host bits zero
VisitedLeafIsKeyWhenHostBitsZero ==
    last_visit # None =>
        /\ (last_visit[1].prefix \in DOMAIN cidr_to_nameservers)
              <=> (last_visit[1].prefix \in DOMAIN cidr_to_ds_rdata)
        /\ (\A key \in DOMAIN cidr_to_nameservers : BitsBeyondLenZero(key))
              => last_visit[1].prefix \in DOMAIN cidr_to_nameservers

\* the inetnum 10.0.0.1/8 was read; the visitor was called with the leaf
\* 10.0.0.0/8, which is not a key, and the call panicked
C26_Witness ==
    /\ last_visit # None
    /\ last_visit[1].prefix = [network |-> V4(10, 0, 0, 0), prefix_len |-> 8]
    /\ [network |-> V4(10, 0, 0, 1), prefix_len |-> 8] \in DOMAIN cidr_to_nameservers
    /\ last_visit[1].prefix \notin DOMAIN cidr_to_nameservers
    /\ pc = "panicked"

\* inetnum records of nested, adjacent and disjoint IPv4 prefixes, on and off
\* the octet boundaries, and one IPv6 record
NestedFilePool ==
    { RecordFile(Some(<< CidrValue(V4(10, 0, 0, 0), 28) >>), WithGlue4, None),
      RecordFile(Some(<< CidrValue(V4(10, 0, 0, 0), 29) >>), WithoutGlue, None),
      RecordFile(Some(<< CidrValue(V4(10, 0, 0, 16), 28) >>), WithoutGlue,
                 Some(<< DsRdata1 >>)),
      RecordFile(Some(<< CidrValue(V4(10, 0, 0, 5), 32) >>), WithGlue4, None),
      RecordFile(Some(<< CidrValue(V4(10, 0, 0, 0), 24) >>), WithoutGlue,
                 Some(<< DsRdata1 >>)),
      RecordFile(Some(<< CidrValue(V4(10, 0, 1, 0), 24) >>), WithGlue6, None),
      RecordFile(Some(<< CidrValue(Doc6(0), 32) >>), WithGlue6, None) }

\* generate_reverse_zones called on records of the nested pool
NestInit ==
    /\ overflow_checks \in BOOLEAN
    /\ record_files \in SeqsUpTo(NestedFilePool, MaxFiles)
    /\ pc = "start"
    /\ ipv4_tree = PrefixTree_new
    /\ ipv6_tree = PrefixTree_new
    /\ inserted = << >>
    /\ rev_in = None
    /\ rev_out = None
    /\ idx = 0
    /\ cidr_to_nameservers = << >>
    /\ cidr_to_ds_rdata = << >>
    /\ pending = << >>
    /\ ipv4_zone = None
    /\ ipv6_zone = None
    /\ counter = ReverseRecordCounter_default
    /\ last_visit = None
    /\ zone = None
    /\ add_result = None
    /\ ForwardIdle
    /\ UpdaterIdle

SpecNest == NestInit /\ [][Next]_vars

\* no owner name of the zone carries a CNAME record together with any other
\* record
NoCnameConflict(z) ==
    \A cname \in z.records :
        IsCNAME(cname) =>
            \A other \in z.records : other.name = cname.name => other = cname

\* C27: after any run of generate_reverse_zones no owner name of the
\* in-addr.arpa zone carries both a CNAME record and a record of another type,
\* and none carries two CNAME records with different targets, whatever nested,
\* adjacent or disjoint IPv4 prefixes were given
C27_NoCnameConflict ==
    ipv4_zone # None => NoCnameConflict(ipv4_zone[1])

\* the run on 10.0.0.0/28 and the adjacent 10.0.0.16/28 has returned: the zone
\* holds the CNAME records of both blocks
C27_Witness ==
    /\ pc = "done"
    /\ { CidrValue(V4(10, 0, 0, 0), 28), CidrValue(V4(10, 0, 0, 16), 28) }
          = { ExtractedNetworkInfo_try_from(record_files[i]).info.cidr :
                i \in DOMAIN record_files }
    /\ \E x, y \in ipv4_zone[1].records :
         /\ IsCNAME(x) /\ Text(x.name) = "15.0.0.10.in-addr.arpa"
         /\ IsCNAME(y) /\ Text(y.name) = "16.0.0.10.in-addr.arpa"

\* the run on the nested 10.0.0.0/28 and 10.0.0.0/29 has returned: the hosts
\* of the /29 point into it and the rest of the /28 has no record
C27_WitnessNested ==
    /\ pc = "done"
    /\ Len(record_files) = 2
    /\ { CidrValue(V4(10, 0, 0, 0), 28), CidrValue(V4(10, 0, 0, 0), 29) }
          = { ExtractedNetworkInfo_try_from(record_files[i]).info.cidr :
                i \in DOMAIN record_files }
    /\ \E x \in ipv4_zone[1].records :
         /\ IsCNAME(x) /\ Text(x.name) = "7.0.0.10.in-addr.arpa"
         /\ Text(x.data.text) = "7.0/29.0.0.10.in-addr.arpa"
    /\ \A x \in ipv4_zone[1].records : Text(x.name) # "8.0.0.10.in-addr.arpa"

-----------------------------------------------------------------------------
(* Bound harness: the CNAME range of a prefix reported by a trie           *)

\* non-aligned IPv4 prefixes as written in an inetnum record, host bits
\* included: every value of the partial octet, in the first and in the last
\* octet, at every length off the octet boundary there
WrittenNonAligned ==
    { CidrValue(V4(a, 0, 0, 7), len) : a \in 0..255, len \in 1..7 }
    \cup { CidrValue(V4(10, 0, 0, a), len) : a \in 0..255, len \in 25..31 }

\* the prefix is parsed and inserted into an empty trie; the one leaf reported
\* goes through lines 485-500 of generate_reverse_records: the partial octet,
\* the upper bound of the range and the number of iterations of the loop
BoundOfLeaf ==
    /\ rev_in = None
    /\ \E written \in WrittenNonAligned :
         \E parsed \in { Prefix_from_str(written.network, written.prefix_len) } :
            /\ parsed.ok
            /\ \E leaves \in { collect_leaves(insert(PrefixTree_new, parsed.prefix)) } :
                 \E cidr \in Range(leaves) :
                    \E first_host_id \in { cidr.network.octets[(cidr.prefix_len \div 8) + 1] } :
                       \E last \in { last_host_id(first_host_id, cidr.prefix_len % 8) } :
                          /\ rev_in' = Some([written |-> parsed.prefix, cidr |-> cidr])
                          /\ rev_out' = Some([first_host_id |-> first_host_id,
                                              last |-> last,
                                              iterations |->
                                                  IF last.panic THEN 0
                                                  ELSE IF first_host_id <= last.value
                                                  THEN last.value - first_host_id + 1
                                                  ELSE 0])
    /\ UNCHANGED << overflow_checks, ipv4_tree, ipv6_tree, inserted,
                    record_files, idx, cidr_to_nameservers, cidr_to_ds_rdata, pending,
                    ipv4_zone, ipv6_zone, counter, pc, last_visit, zone, add_result >>
    /\ UNCHANGED fwd_vars
    /\ UNCHANGED upd_vars

BoundInit == RevInit

BoundNext == BoundOfLeaf

SpecBound == BoundInit /\ [][BoundNext]_vars

\* C28: in the non-aligned IPv4 expansion the upper bound h + 2^(8-r) - 1 of
\* the CNAME range, computed in unsigned 8-bit arithmetic, never exceeds 255
\* for a prefix reported by the trie, for every length with r = L mod 8 in 1..7
\* and every value of the partial octet; the loop runs exactly 2^(8-r) times
C28_RangeBoundWithinU8 ==
    rev_out # None =>
        LET r == rev_in[1].cidr.prefix_len % 8
            h == rev_out[1].first_host_id
        IN /\ r \in 1..7
           /\ h + 2 ^ (8 - r) - 1 <= 255
           /\ ~rev_out[1].last.panic
           /\ rev_out[1].last.value = h + 2 ^ (8 - r) - 1
           /\ rev_out[1].iterations = 2 ^ (8 - r)

\* 10.0.0.255/25 was written; the trie reports 10.0.0.128/25 and the range
\* ends at 255 after 128 iterations
C28_Witness ==
    /\ rev_in # None
    /\ rev_in[1].written = [network |-> V4(10, 0, 0, 255), prefix_len |-> 25]
    /\ rev_in[1].cidr = [network |-> V4(10, 0, 0, 128), prefix_len |-> 25]
    /\ rev_out[1].last.value = 255
    /\ rev_out[1].iterations = 128

-----------------------------------------------------------------------------
(* Generation tasks: what a failed run and a run without checkout publish   *)

\* the snapshot is one that was completely written, in an earlier cycle, and
\* none was written after it; its lock is not held by a writer
LeftByEarlierRun(lock, history) ==
    /\ ~lock.writer
    /\ lock.value \in history
    /\ lock.value.last_updated < cycle
    /\ \A snapshot \in history : snapshot.last_updated <= lock.value.last_updated

\* C29: when a generation task returns an error at any point of its run, the
\* snapshot it owns is left entirely unchanged: content and last_updated keep
\* the values written by the last successful run
C29_FailedTaskLeavesSnapshot ==
    /\ (RoaTaskEnded /\ trace[2].result = "err")
          => LeftByEarlierRun(roa_data, published.roa)
    /\ (DnsTaskEnded /\ trace[3].result = "err")
          => LeftByEarlierRun(dns_data, published.dns)

\* in the second cycle the route directory holds an unreadable file: the ROA
\* task has failed and the snapshot is the document of the first cycle
C29_Witness ==
    /\ cycle = 2
    /\ RoaTaskEnded
    /\ trace[2].result = "err"
    /\ roa_data.value.last_updated = 1
    /\ Len(roa_data.value.json_content) = 1
    /\ roa_data.value.json_content[1].roas # << >>

\* in the second cycle the ROA task found the checkout, none of whose files
\* is unreadable, and the directory was removed before the task had read it
\* all: the task has failed and the snapshot is the document of the first cycle
C29_WitnessRemovedInTask ==
    /\ cycle = 2
    /\ RoaTaskEnded
    /\ trace[2].result = "err"
    /\ root_found[1]
    /\ \A checkout \in checkouts :
          \A dir \in Range(route_directories) :
             /\ checkout[dir] # NoDirectory
             /\ \A entry \in EntriesOf(checkout, dir) : entry.content # None
    /\ roa_data.value.last_updated = 1
    /\ Len(roa_data.value.json_content) = 1
    /\ roa_data.value.json_content[1].roas # << >>

\* the checkout has no route directory: read_dir has failed, the ROA task has
\* returned Err and the snapshot is still the one of construction
C29_WitnessMissingDirectory ==
    /\ registry.exists
    /\ registry.route = NoDirectory
    /\ RoaTaskEnded
    /\ root_found[1]
    /\ trace[2].result = "err"
    /\ roa_data.value = ROACache_default(0)

\* the same for the DNS task, whose snapshot keeps the zones of the first cycle
C29_WitnessDns ==
    /\ cycle = 2
    /\ DnsTaskEnded
    /\ trace[3].result = "err"
    /\ dns_data.value.last_updated = 1
    /\ dns_data.value.content # << >>

\* C30: when the registry root does not exist at the time a task runs (its
\* exists() answers false, whatever is on disk before or after), the task
\* returns success and replaces its snapshot with an empty artifact (a ROA
\* document with zero entries, an empty zone map), so content of earlier
\* successful cycles is no longer served
C30_AbsentRootPublishesEmpty ==
    /\ (RoaTaskEnded /\ ~root_found[1]) =>
          /\ trace[2] = Step("roa", "ok")
          /\ IsEmptyRoaDocument(roa_data.value.json_content)
          /\ roa_data.value.last_updated = cycle
    /\ (DnsTaskEnded /\ ~root_found[2]) =>
          /\ trace[3] = Step("dns", "ok")
          /\ dns_data.value.content = << >>
          /\ dns_data.value.last_updated = cycle

\* the first cycle published ROAs and zones; in the second both tasks found
\* no checkout, both have succeeded and both snapshots are empty
C30_Witness ==
    /\ cycle = 2
    /\ root_found = << FALSE, FALSE >>
    /\ DnsTaskEnded
    /\ \E earlier \in published.roa :
         /\ earlier.last_updated = 1
         /\ Len(earlier.json_content) = 1
         /\ earlier.json_content[1].roas # << >>
    /\ \E earlier \in published.dns :
         earlier.last_updated = 1 /\ earlier.content # << >>
    /\ IsEmptyRoaDocument(roa_data.value.json_content)
    /\ dns_data.value.content = << >>

\* the ROA task found no checkout and published the empty document; the
\* checkout was written afterwards, and the DNS task of the same cycle found it
C30_WitnessWrittenAfter ==
    /\ root_found = << FALSE, TRUE >>
    /\ registry.exists
    /\ DnsTaskEnded
    /\ trace[3].result = "ok"
    /\ IsEmptyRoaDocument(roa_data.value.json_content)
    /\ dns_data.value.content # << >>
====
